---------------------------- MODULE Spec2Model ----------------------------
(***************************************************************************)
(* Route finding over a penalised road graph (PathfindingService.findPath), *)
(* the geo-grid issue cache (IssueCacheService) and the graph import        *)
(* (importGraph).                                                           *)
(*                                                                         *)
(* Units.  Coordinates are integers in steps of 0.001 degree, so the snap  *)
(* radii 0.001, 0.005, 0.01, 0.05 are 1, 5, 10, 50.  Distances are metres. *)
(* A penalty is stored in units of 1/PenaltyScale (PenaltyScale = 2: the   *)
(* stored 3 is the multiplier 1.5), and every cost, gScore and fScore is   *)
(* in units of 1/PenaltyScale metre, so that distance * penalty is exact.  *)
(***************************************************************************)
EXTENDS Integers, Sequences, FiniteSets

VARIABLES
    nodes,          \* GraphNode table: id -> [latitude, longitude]
    edges,          \* GraphEdge table: sequence of rows, in row order
    pc,             \* per caller: where its findPath call stands
    query,          \* per caller: [startLat, startLng, endLat, endLng]
    startNode,      \* per caller: snapped start node id, or Null
    endNode,        \* per caller: snapped end node id, or Null
    snapRows,       \* per caller: the rows the two snaps returned
    nodeMap,        \* per caller: the node rows loaded by the call
    adjacency,      \* per caller: node id -> sequence of adjacency entries
    openSet,        \* per caller: the queue's items [nodeId, fScore]
    gScore,         \* per caller: Map nodeId -> penalised cost from start
    cameFrom,       \* per caller: Map nodeId -> predecessor id
    distanceFrom,   \* per caller: Map nodeId -> raw distance from start
    visited,        \* per caller: Set of expanded node ids
    result,         \* per caller: what findPath returned
    issues,         \* Issue table: id -> row
    cellCache,      \* Redis: cell key -> cached list of issue ids
    summaryCache,   \* Redis: issue id -> cached IssueSummary
    req,            \* per request: the locals of its getIssuesInBounds call
    ttl,            \* Redis: the time now and the time each key expires
    inval,          \* the store change and the invalidateIssueCache call
    imp             \* the importGraph run

graphVars == <<nodes, edges>>
callVars == <<pc, query, startNode, endNode, snapRows, nodeMap, adjacency, openSet,
              gScore, cameFrom, distanceFrom, visited, result>>
routeVars == <<graphVars, callVars>>
cacheVars == <<issues, cellCache, summaryCache, req, ttl>>
maintVars == <<inval, imp>>
vars == <<routeVars, cacheVars, maintVars>>

----------------------------------------------------------------------------
(* Bounds and units *)

\* Largest stored penalty, in units of 1/PenaltyScale.
MaxPenalty == 3

\* Stored penalties are multiples of 1/PenaltyScale.
PenaltyScale == 2

\* Metres per coordinate step of 0.001 degree (turf.distance near the equator).
MetersPerStep == 111

Callers == {"c1", "c2"}
Nodes == {"A", "B", "C", "D"}
Null == "null"
Penalties == 0 .. MaxPenalty
One == PenaltyScale

\* gScore.get(x) ?? Infinity: costs are never negative, so -1 is free.
Infinity == -1

----------------------------------------------------------------------------
(* Arithmetic *)

Abs(x) == IF x < 0 THEN -x ELSE x

RECURSIVE SqrtSearch(_, _, _)
\* The least k in lo..hi with k * k >= n (hi * hi >= n is given).
SqrtSearch(n, lo, hi) ==
    IF lo >= hi THEN hi
    ELSE LET mid == (lo + hi) \div 2
         IN  IF mid * mid >= n THEN SqrtSearch(n, lo, mid)
             ELSE SqrtSearch(n, mid + 1, hi)

\* turf.distance in metres between two coordinates, rounded up to a metre.
\* Rounding up keeps the triangle inequality of the great-circle distance.
heuristic(lat1, lon1, lat2, lon2) ==
    LET dLat == lat1 - lat2
        dLon == lon1 - lon2
    IN  SqrtSearch(MetersPerStep * MetersPerStep * (dLat * dLat + dLon * dLon),
                   0, MetersPerStep * (Abs(dLat) + Abs(dLon)))

\* a < b where either may be Infinity.
LessThan(a, b) ==
    IF a = Infinity THEN FALSE
    ELSE IF b = Infinity THEN TRUE
    ELSE a < b

\* Map.get(k) ?? dflt
MapGet(m, k, dflt) == IF k \in DOMAIN m THEN m[k] ELSE dflt

\* Map.set(k, v)
MapSet(m, k, v) == [x \in (DOMAIN m) \cup {k} |-> IF x = k THEN v ELSE m[x]]

EmptyMap == [x \in {} |-> 0]


----------------------------------------------------------------------------
(* The graph store: the rows findPath reads *)

Coord(lat, lng) == [latitude |-> lat, longitude |-> lng]

\* Nodes on one road running east-west.
LineLayout ==
    [n \in Nodes |->
        CASE n = "A" -> Coord(0, 0)
          [] n = "B" -> Coord(0, -1)
          [] n = "C" -> Coord(0, 2)
          [] n = "D" -> Coord(0, 4)]

\* Nodes on the corners of a square of the given side: A(0,0), B(0,s),
\* C(s,s), D(s,0), the layout of the four-node scenario.
SquareLayout(side) ==
    [n \in Nodes |->
        CASE n = "A" -> Coord(0, 0)
          [] n = "B" -> Coord(0, side)
          [] n = "C" -> Coord(side, side)
          [] n = "D" -> Coord(side, 0)]

Layouts == {LineLayout, SquareLayout(2)}

\* Sides tried for the scenario square, in coordinate steps.
ScenarioSides == {1, 30, 40}

\* calculateDistance of the import: the stored distance of an imported edge
\* is the great-circle distance between its two nodes.
calculateDistance(layout, u, v) ==
    heuristic(layout[u].latitude, layout[u].longitude,
              layout[v].latitude, layout[v].longitude)

EdgeRow(id, u, v, dist, pen) ==
    [id |-> id, startNodeId |-> u, endNodeId |-> v,
     distance |-> dist, baseCost |-> dist, penalty |-> pen]

\* The directed node pairs that may carry an edge row.
Slots == << <<"A", "C">>, <<"A", "B">>, <<"B", "C">>, <<"C", "D">> >>

NSlots == Len(Slots)

RECURSIVE SlotRows(_, _, _, _, _)
\* The edge rows of the chosen slots, in slot order; with mirror, each is
\* followed by its reverse edge (the import writes both directions).
SlotRows(layout, present, pen, mirror, i) ==
    IF i > NSlots THEN << >>
    ELSE LET u == Slots[i][1]
             v == Slots[i][2]
             d == calculateDistance(layout, u, v)
             fwd == << EdgeRow(i, u, v, d, pen[i]) >>
             rev == IF mirror THEN << EdgeRow(NSlots + i, v, u, d, pen[i]) >>
                    ELSE << >>
             rest == SlotRows(layout, present, pen, mirror, i + 1)
         IN  IF i \in present THEN fwd \o rev \o rest ELSE rest

\* The four-node scenario: A-B, B-C, C-D of 100 m and penalty 1, A-D of
\* 1000 m and penalty 5, every edge in both directions.
ScenarioEdges ==
    << EdgeRow(1, "A", "B", 100, One),  EdgeRow(2, "B", "A", 100, One),
       EdgeRow(3, "B", "C", 100, One),  EdgeRow(4, "C", "B", 100, One),
       EdgeRow(5, "C", "D", 100, One),  EdgeRow(6, "D", "C", 100, One),
       EdgeRow(7, "A", "D", 1000, 5 * One),
       EdgeRow(8, "D", "A", 1000, 5 * One) >>

----------------------------------------------------------------------------
(* Requests *)

Query(sLat, sLng, eLat, eLng) ==
    [startLat |-> sLat, startLng |-> sLng, endLat |-> eLat, endLng |-> eLng]

\* A request from a point `so` steps south of node `from` to a point `eo`
\* steps north of node `to`.
QueryNear(layout, from, so, to, eo) ==
    Query(layout[from].latitude - so, layout[from].longitude,
          layout[to].latitude + eo, layout[to].longitude)

\* Offsets that make each snap radius the first to find a node, and 70,
\* which is beyond the largest radius.
Queries(layout) ==
    { QueryNear(layout, "A", 0, "D", 0),
      QueryNear(layout, "A", 30, "D", 8),
      QueryNear(layout, "A", 70, "D", 0),
      QueryNear(layout, "A", 0, "D", 70),
      QueryNear(layout, "A", 3, "A", 0) }

NoQuery == Query(0, 0, 0, 0)

----------------------------------------------------------------------------
(* findNearestNode *)

searchRadii == << 1, 5, 10, 50 >>

\* The rows of prisma.graphNode.findMany for one radius.
NodesInBox(lat, lng, radius) ==
    { n \in DOMAIN nodes :
        /\ nodes[n].latitude >= lat - radius
        /\ nodes[n].latitude <= lat + radius
        /\ nodes[n].longitude >= lng - radius
        /\ nodes[n].longitude <= lng + radius }

NodeDist(n, lat, lng) ==
    heuristic(lat, lng, nodes[n].latitude, nodes[n].longitude)

\* No row: what a snap that found nothing leaves behind.
NoRow == [latitude |-> 0, longitude |-> 0]

\* The PathNode a snap returns: the row's coordinates as they were read.
RowOf(n) ==
    IF n = Null THEN NoRow
    ELSE [latitude |-> nodes[n].latitude, longitude |-> nodes[n].longitude]

\* Variant: the first row of the box is returned, the distances not compared.
AnyInBox(box, lat, lng) == box

\* The loop keeps the first row whose distance is strictly below the best
\* so far; the rows come in no stated order, so any row at the least
\* distance can be the one returned.
Closest(box, lat, lng) ==
    { n \in box : \A m \in box : NodeDist(n, lat, lng) <= NodeDist(m, lat, lng) }

RECURSIVE NearestFromFallback(_, _, _)
\* Variant: when no radius finds a node, fall back to the nearest node of
\* the whole table instead of returning null.
NearestFromFallback(lat, lng, i) ==
    IF i > Len(searchRadii) THEN Closest(Nodes, lat, lng)
    ELSE LET box == NodesInBox(lat, lng, searchRadii[i])
         IN  IF box # {} THEN Closest(box, lat, lng)
             ELSE NearestFromFallback(lat, lng, i + 1)

RECURSIVE NearestFrom(_, _, _)
NearestFrom(lat, lng, i) ==
    IF i > Len(searchRadii) THEN {Null}
    ELSE LET box == NodesInBox(lat, lng, searchRadii[i])
         IN  IF box # {} THEN Closest(box, lat, lng)
             ELSE NearestFrom(lat, lng, i + 1)

\* The set of values findNearestNode(lat, lng) can return.
findNearestNode(lat, lng) == NearestFrom(lat, lng, 1)

----------------------------------------------------------------------------
(* buildAdjacencyList *)

\* Variant: the stored penalty is used as it is, 0 included.
RawPenalty(edge) == edge.penalty

\* const penalty = edge.penalty === 0 ? 1 : edge.penalty
EffectivePenalty(edge) == IF edge.penalty = 0 THEN One ELSE edge.penalty

\* Variant: the entry's cost is the raw distance, the penalty left out.
AdjEntryNoPenalty(edge) ==
    [nodeId |-> edge.endNodeId,
     cost |-> edge.distance * One,
     distance |-> edge.distance,
     edgeId |-> edge.id]

AdjEntry(edge) ==
    [nodeId |-> edge.endNodeId,
     cost |-> edge.distance * EffectivePenalty(edge),
     distance |-> edge.distance,
     edgeId |-> edge.id]

RECURSIVE EntriesFrom(_, _, _)
\* The entries pushed for start node n, in row order.
EntriesFrom(rows, n, i) ==
    IF i > Len(rows) THEN << >>
    ELSE IF rows[i].startNodeId = n
         THEN << AdjEntry(rows[i]) >> \o EntriesFrom(rows, n, i + 1)
         ELSE EntriesFrom(rows, n, i + 1)

\* A Map with a key for every node that starts an edge, and no other key.
buildAdjacencyList(rows) ==
    [n \in {rows[i].startNodeId : i \in DOMAIN rows} |-> EntriesFrom(rows, n, 1)]

----------------------------------------------------------------------------
(* findPath: the search *)

NullResult == [kind |-> "null"]

Plus(a, b) == IF a = Infinity THEN Infinity ELSE a + b

\* Variant: the comparator is reversed, the queue pops the greatest fScore.
MaxItems(queue) ==
    { it \in queue : \A other \in queue : it.fScore >= other.fScore }

\* The items TinyQueue.pop() can return: those of least fScore.
MinItems(queue) ==
    { it \in queue : \A other \in queue : it.fScore <= other.fScore }

\* Variant: `if (tentativeGScore <= neighborG)`, a tie replaces the record.
RelaxNeighborOnTie(s, currentId, neighbor, nm, endRow) ==
    LET currentG == MapGet(s.gScore, currentId, Infinity)
        tentativeGScore == Plus(currentG, neighbor.cost)
        tentativeDistance ==
            MapGet(s.distanceFrom, currentId, 0) + neighbor.distance
        neighborG == MapGet(s.gScore, neighbor.nodeId, Infinity)
        h == heuristic(nm[neighbor.nodeId].latitude,
                       nm[neighbor.nodeId].longitude,
                       endRow.latitude, endRow.longitude)
        item == [nodeId |-> neighbor.nodeId,
                 fScore |-> tentativeGScore + PenaltyScale * h]
    IN  IF tentativeGScore = neighborG \/ LessThan(tentativeGScore, neighborG)
        THEN [gScore |-> MapSet(s.gScore, neighbor.nodeId, tentativeGScore),
              cameFrom |-> MapSet(s.cameFrom, neighbor.nodeId, currentId),
              distanceFrom |->
                  MapSet(s.distanceFrom, neighbor.nodeId, tentativeDistance),
              openSet |-> IF neighbor.nodeId \in DOMAIN nm
                          THEN s.openSet \cup {item}
                          ELSE s.openSet]
        ELSE s

\* One pass of the body of `for (const neighbor of neighbors)`.
\* s holds gScore, cameFrom, distanceFrom and openSet as the loop left them.
RelaxNeighbor(s, currentId, neighbor, nm, endRow) ==
    LET currentG == MapGet(s.gScore, currentId, Infinity)
        tentativeGScore == Plus(currentG, neighbor.cost)
        tentativeDistance ==
            MapGet(s.distanceFrom, currentId, 0) + neighbor.distance
        neighborG == MapGet(s.gScore, neighbor.nodeId, Infinity)
        h == heuristic(nm[neighbor.nodeId].latitude,
                       nm[neighbor.nodeId].longitude,
                       endRow.latitude, endRow.longitude)
        item == [nodeId |-> neighbor.nodeId,
                 fScore |-> tentativeGScore + PenaltyScale * h]
    IN  IF LessThan(tentativeGScore, neighborG)
        THEN [gScore |-> MapSet(s.gScore, neighbor.nodeId, tentativeGScore),
              cameFrom |-> MapSet(s.cameFrom, neighbor.nodeId, currentId),
              distanceFrom |->
                  MapSet(s.distanceFrom, neighbor.nodeId, tentativeDistance),
              openSet |-> IF neighbor.nodeId \in DOMAIN nm
                          THEN s.openSet \cup {item}
                          ELSE s.openSet]
        ELSE s

RECURSIVE RelaxAll(_, _, _, _, _, _)
RelaxAll(s, currentId, neighbors, i, nm, endRow) ==
    IF i > Len(neighbors) THEN s
    ELSE RelaxAll(RelaxNeighbor(s, currentId, neighbors[i], nm, endRow),
                  currentId, neighbors, i + 1, nm, endRow)

\* adjacency.get(current.nodeId) || []
NeighborsOf(adj, nodeId) == MapGet(adj, nodeId, << >>)

RECURSIVE WalkBackDropStart(_, _, _, _)
\* Variant: the walk stops at the node that has no predecessor without
\* adding it: while (cameFrom.has(nodeId)) { ... }
WalkBackDropStart(nodeId, path, cf, nm) ==
    IF nodeId \notin DOMAIN cf THEN path
    ELSE LET here == IF nodeId \in DOMAIN nm
                     THEN << [lat |-> nm[nodeId].latitude,
                              lng |-> nm[nodeId].longitude] >>
                     ELSE << >>
         IN  WalkBackDropStart(cf[nodeId], here \o path, cf, nm)

RECURSIVE WalkBack(_, _, _, _)
\* while (nodeId) { path.unshift(node); nodeId = cameFrom.get(nodeId) }
WalkBack(nodeId, path, cf, nm) ==
    IF nodeId = Null THEN path
    ELSE LET here == IF nodeId \in DOMAIN nm
                     THEN << [lat |-> nm[nodeId].latitude,
                              lng |-> nm[nodeId].longitude] >>
                     ELSE << >>
         IN  WalkBack(MapGet(cf, nodeId, Null), here \o path, cf, nm)

\* The PathResult built when the end node is popped.  estimatedTime is in
\* thousandths of a minute: (totalDistance / 1000 / 30) * 60 = 0.002 * d.
Reconstruct(endId, g, cf, df, nm) ==
    LET totalDistance == MapGet(df, endId, 0)
    IN  [kind |-> "PathResult",
         path |-> WalkBack(endId, << >>, cf, nm),
         totalDistance |-> totalDistance,
         totalCost |-> MapGet(g, endId, 0),
         estimatedTime |-> 2 * totalDistance]

----------------------------------------------------------------------------
(* findPath: the steps of one call *)

SnapStart(c) ==
    /\ pc[c] = "snapStart"
    /\ \E n \in findNearestNode(query[c].startLat, query[c].startLng) :
          /\ startNode' = [startNode EXCEPT ![c] = n]
          /\ snapRows' = [snapRows EXCEPT ![c].start = RowOf(n)]
    /\ pc' = [pc EXCEPT ![c] = "snapEnd"]
    /\ UNCHANGED <<maintVars, cacheVars, graphVars, query, endNode, nodeMap, adjacency, openSet,
                   gScore, cameFrom, distanceFrom, visited, result>>

\* The second snap, then `if (!startNode || !endNode) return null`.
SnapEnd(c) ==
    /\ pc[c] = "snapEnd"
    /\ \E n \in findNearestNode(query[c].endLat, query[c].endLng) :
          /\ endNode' = [endNode EXCEPT ![c] = n]
          /\ snapRows' = [snapRows EXCEPT ![c].end = RowOf(n)]
          /\ IF startNode[c] = Null \/ n = Null
             THEN /\ result' = [result EXCEPT ![c] = NullResult]
                  /\ pc' = [pc EXCEPT ![c] = "done"]
             ELSE /\ result' = result
                  /\ pc' = [pc EXCEPT ![c] = "load"]
    /\ UNCHANGED <<maintVars, cacheVars, graphVars, query, startNode, nodeMap, adjacency, openSet,
                   gScore, cameFrom, distanceFrom, visited>>

\* Load the graph, build nodeMap and adjacency, set up the search.
LoadGraph(c) ==
    /\ pc[c] = "load"
    /\ nodeMap' = [nodeMap EXCEPT ![c] = nodes]
    /\ adjacency' = [adjacency EXCEPT ![c] = buildAdjacencyList(edges)]
    /\ openSet' = [openSet EXCEPT
                     ![c] = {[nodeId |-> startNode[c], fScore |-> 0]}]
    /\ gScore' = [gScore EXCEPT ![c] = MapSet(EmptyMap, startNode[c], 0)]
    /\ distanceFrom' =
           [distanceFrom EXCEPT ![c] = MapSet(EmptyMap, startNode[c], 0)]
    /\ cameFrom' = [cameFrom EXCEPT ![c] = EmptyMap]
    /\ visited' = [visited EXCEPT ![c] = {}]
    /\ pc' = [pc EXCEPT ![c] = "search"]
    /\ UNCHANGED <<maintVars, cacheVars, graphVars, query, snapRows, startNode, endNode, result>>

\* Variant: an exhausted search returns an empty route instead of null.
EmptyRoute ==
    [kind |-> "PathResult", path |-> << >>, totalDistance |-> 0,
     totalCost |-> 0, estimatedTime |-> 0]

\* console.log("No path found ..."); return null
NoPathResult == NullResult

\* The popped node is the end node: rebuild the path and return it.
ReachEnd(c) ==
    /\ pc[c] = "search"
    /\ \E current \in MinItems(openSet[c]) :
          /\ current.nodeId = endNode[c]
          /\ openSet' = [openSet EXCEPT ![c] = @ \ {current}]
    /\ result' = [result EXCEPT
                    ![c] = Reconstruct(endNode[c], gScore[c], cameFrom[c],
                                       distanceFrom[c], nodeMap[c])]
    /\ pc' = [pc EXCEPT ![c] = "done"]
    /\ UNCHANGED <<maintVars, cacheVars, graphVars, query, snapRows, startNode, endNode, nodeMap, adjacency,
                   gScore, cameFrom, distanceFrom, visited>>

\* Variant: `continue` without the pop, the visited item stays on the queue.
SkipVisitedKeepsItem(c) ==
    /\ pc[c] = "search"
    /\ \E current \in MinItems(openSet[c]) :
          /\ current.nodeId # endNode[c]
          /\ current.nodeId \in visited[c]
    /\ UNCHANGED vars

\* if (visited.has(current.nodeId)) continue
SkipVisited(c) ==
    /\ pc[c] = "search"
    /\ \E current \in MinItems(openSet[c]) :
          /\ current.nodeId # endNode[c]
          /\ current.nodeId \in visited[c]
          /\ openSet' = [openSet EXCEPT ![c] = @ \ {current}]
    /\ UNCHANGED <<maintVars, cacheVars, graphVars, pc, query, snapRows, startNode, endNode, nodeMap,
                   adjacency, gScore, cameFrom, distanceFrom, visited, result>>

\* Variant: the visited set is one object shared by all calls.
ExpandSharedVisited(c) ==
    /\ pc[c] = "search"
    /\ \E current \in MinItems(openSet[c]) :
          /\ current.nodeId # endNode[c]
          /\ current.nodeId \notin visited[c]
          /\ LET s0 == [gScore |-> gScore[c], cameFrom |-> cameFrom[c],
                        distanceFrom |-> distanceFrom[c],
                        openSet |-> openSet[c] \ {current}]
                 s1 == RelaxAll(s0, current.nodeId,
                                NeighborsOf(adjacency[c], current.nodeId), 1,
                                nodeMap[c], snapRows[c].end)
             IN  /\ visited' = [d \in Callers |->
                                  visited[d] \cup {current.nodeId}]
                 /\ gScore' = [gScore EXCEPT ![c] = s1.gScore]
                 /\ cameFrom' = [cameFrom EXCEPT ![c] = s1.cameFrom]
                 /\ distanceFrom' = [distanceFrom EXCEPT ![c] = s1.distanceFrom]
                 /\ openSet' = [openSet EXCEPT ![c] = s1.openSet]
    /\ UNCHANGED <<maintVars, cacheVars, graphVars, pc, query, snapRows, startNode,
                   endNode, nodeMap, adjacency, result>>

\* Mark the popped node visited and relax every neighbour.
Expand(c) ==
    /\ pc[c] = "search"
    /\ \E current \in MinItems(openSet[c]) :
          /\ current.nodeId # endNode[c]
          /\ current.nodeId \notin visited[c]
          /\ LET s0 == [gScore |-> gScore[c], cameFrom |-> cameFrom[c],
                        distanceFrom |-> distanceFrom[c],
                        openSet |-> openSet[c] \ {current}]
                 s1 == RelaxAll(s0, current.nodeId,
                                NeighborsOf(adjacency[c], current.nodeId), 1,
                                nodeMap[c], snapRows[c].end)
             IN  /\ visited' = [visited EXCEPT ![c] = @ \cup {current.nodeId}]
                 /\ gScore' = [gScore EXCEPT ![c] = s1.gScore]
                 /\ cameFrom' = [cameFrom EXCEPT ![c] = s1.cameFrom]
                 /\ distanceFrom' = [distanceFrom EXCEPT ![c] = s1.distanceFrom]
                 /\ openSet' = [openSet EXCEPT ![c] = s1.openSet]
    /\ UNCHANGED <<maintVars, cacheVars, graphVars, pc, query, snapRows, startNode, endNode, nodeMap,
                   adjacency, result>>

\* The queue is empty and the end node was never popped: return null.
NoPath(c) ==
    /\ pc[c] = "search"
    /\ openSet[c] = {}
    /\ result' = [result EXCEPT ![c] = NoPathResult]
    /\ pc' = [pc EXCEPT ![c] = "done"]
    /\ UNCHANGED <<maintVars, cacheVars, graphVars, query, snapRows, startNode, endNode, nodeMap, adjacency,
                   openSet, gScore, cameFrom, distanceFrom, visited>>

----------------------------------------------------------------------------
(* findPath beside a changing graph: one step per query *)

\* Where a call stands before the query of each radius.
SnapStartAt == << "snapStart", "snapStart2", "snapStart3", "snapStart4" >>
SnapEndAt == << "snapEnd", "snapEnd2", "snapEnd3", "snapEnd4" >>

\* One query of the first snap: `await prisma.graphNode.findMany` for one
\* radius, the closest row if there is one, else the next radius, else null.
QueryStart(c) ==
    /\ \E i \in 1 .. Len(searchRadii) :
          /\ pc[c] = SnapStartAt[i]
          /\ LET lat == query[c].startLat
                 lng == query[c].startLng
                 box == NodesInBox(lat, lng, searchRadii[i])
             IN  IF box # {}
                 THEN /\ \E n \in Closest(box, lat, lng) :
                            /\ startNode' = [startNode EXCEPT ![c] = n]
                            /\ snapRows' =
                                   [snapRows EXCEPT ![c].start = RowOf(n)]
                      /\ pc' = [pc EXCEPT ![c] = "snapEnd"]
                 ELSE /\ pc' = [pc EXCEPT
                                  ![c] = IF i < Len(searchRadii)
                                         THEN SnapStartAt[i + 1]
                                         ELSE "snapEnd"]
                      /\ UNCHANGED <<startNode, snapRows>>
    /\ UNCHANGED <<maintVars, cacheVars, graphVars, query, endNode, nodeMap,
                   adjacency, openSet, gScore, cameFrom, distanceFrom,
                   visited, result>>

\* One query of the second snap; when the snap is over,
\* `if (!startNode || !endNode) return null`.
QueryEnd(c) ==
    /\ \E i \in 1 .. Len(searchRadii) :
          /\ pc[c] = SnapEndAt[i]
          /\ LET lat == query[c].endLat
                 lng == query[c].endLng
                 box == NodesInBox(lat, lng, searchRadii[i])
             IN  IF box # {}
                 THEN /\ \E n \in Closest(box, lat, lng) :
                            /\ endNode' = [endNode EXCEPT ![c] = n]
                            /\ snapRows' =
                                   [snapRows EXCEPT ![c].end = RowOf(n)]
                      /\ IF startNode[c] = Null
                         THEN /\ result' = [result EXCEPT ![c] = NullResult]
                              /\ pc' = [pc EXCEPT ![c] = "done"]
                         ELSE /\ result' = result
                              /\ pc' = [pc EXCEPT ![c] = "load"]
                 ELSE IF i < Len(searchRadii)
                      THEN /\ pc' = [pc EXCEPT ![c] = SnapEndAt[i + 1]]
                           /\ UNCHANGED <<endNode, snapRows, result>>
                      ELSE /\ result' = [result EXCEPT ![c] = NullResult]
                           /\ pc' = [pc EXCEPT ![c] = "done"]
                           /\ UNCHANGED <<endNode, snapRows>>
    /\ UNCHANGED <<maintVars, cacheVars, graphVars, query, startNode, nodeMap,
                   adjacency, openSet, gScore, cameFrom, distanceFrom,
                   visited>>

\* Both queries of the Promise.all have answered: set up the search.
BeginSearch(c) ==
    /\ openSet' = [openSet EXCEPT
                     ![c] = {[nodeId |-> startNode[c], fScore |-> 0]}]
    /\ gScore' = [gScore EXCEPT ![c] = MapSet(EmptyMap, startNode[c], 0)]
    /\ distanceFrom' =
           [distanceFrom EXCEPT ![c] = MapSet(EmptyMap, startNode[c], 0)]
    /\ cameFrom' = [cameFrom EXCEPT ![c] = EmptyMap]
    /\ visited' = [visited EXCEPT ![c] = {}]
    /\ pc' = [pc EXCEPT ![c] = "search"]

\* prisma.graphNode.findMany of the Promise.all answers, before or after
\* the edge query does.
LoadNodes(c) ==
    /\ pc[c] \in {"load", "edgesLoaded"}
    /\ nodeMap' = [nodeMap EXCEPT ![c] = nodes]
    /\ IF pc[c] = "load"
       THEN /\ pc' = [pc EXCEPT ![c] = "nodesLoaded"]
            /\ UNCHANGED <<openSet, gScore, distanceFrom, cameFrom, visited>>
       ELSE BeginSearch(c)
    /\ UNCHANGED <<maintVars, cacheVars, graphVars, query, snapRows,
                   startNode, endNode, adjacency, result>>

\* prisma.graphEdge.findMany of the Promise.all answers, before or after
\* the node query does.
LoadEdges(c) ==
    /\ pc[c] \in {"load", "nodesLoaded"}
    /\ adjacency' = [adjacency EXCEPT ![c] = buildAdjacencyList(edges)]
    /\ IF pc[c] = "load"
       THEN /\ pc' = [pc EXCEPT ![c] = "edgesLoaded"]
            /\ UNCHANGED <<openSet, gScore, distanceFrom, cameFrom, visited>>
       ELSE BeginSearch(c)
    /\ UNCHANGED <<maintVars, cacheVars, graphVars, query, snapRows,
                   startNode, endNode, nodeMap, result>>

----------------------------------------------------------------------------
(* The geo-grid issue cache: IssueCacheService *)
(*                                                                         *)
(* Issue coordinates are in the same steps of 0.001 degree.  A cache is a  *)
(* Map from key to value: a key that is not in its DOMAIN is a miss.       *)

\* Time is in seconds.  CACHE_TTL and ISSUE_SUMMARY_TTL, as in the source.
CACHE_TTL == 300
ISSUE_SUMMARY_TTL == 600

\* The clock advances in steps of TickSeconds, up to MaxTime.
TickSeconds == 300
MaxTime == 900

\* The expiry times of a cache whose entries were all written at time 0, the
\* store last changed at time 0.
JustWritten(cells, summaries) ==
    [now |-> 0,
     changed |-> 0,
     cell |-> [k \in DOMAIN cells |-> CACHE_TTL],
     summary |-> [id \in DOMAIN summaries |-> ISSUE_SUMMARY_TTL]]

\* redisClient.setex(key, seconds, value): the key expires `seconds` from
\* now; a get does not move the expiry.
ExpireCell(t, cellKey, seconds) ==
    [t EXCEPT !.cell = [k \in DOMAIN @ \cup {cellKey} |->
                           IF k = cellKey THEN t.now + seconds ELSE @[k]]]

ExpireSummary(t, issueId, seconds) ==
    [t EXCEPT !.summary = [id \in DOMAIN @ \cup {issueId} |->
                              IF id = issueId THEN t.now + seconds ELSE @[id]]]

\* GRID_CELL_SIZE = 0.01 degree, in coordinate steps.
GRID_CELL_SIZE == 10

\* cells.length > 100 takes the direct query.
MaxCells == 100

\* take: 500, scaled down so that a store can hold more matching issues
\* than the direct query returns.
Take == 2

\* The coordinate of a stored issue that has none (issue.latitude ?? 0).
NullCoord == -9999

Requests == {"r1", "r2"}
IssueIds == {1, 2}
Statuses == {"OPEN", "RESOLVED"}

\* A stored issue.  Ids are handed out in order of creation, so createdAt is
\* the id.
IssueRow(id, lat, lng, status) ==
    [id |-> id, latitude |-> lat, longitude |-> lng, status |-> status,
     createdAt |-> id]

Bounds(minLat, maxLat, minLng, maxLng) ==
    [minLat |-> minLat, maxLat |-> maxLat, minLng |-> minLng, maxLng |-> maxLng]

\* Coordinates, bounds and cell corners are IEEE-754 doubles.  A coordinate
\* of m steps is the double nearest to m/1000.  The products, sums and
\* quotients the service computes with GRID_CELL_SIZE are rounded once more
\* and can miss the double nearest to their decimal value by one unit in the
\* last place; the sets below list, for the cell indices -1 .. 36, where
\* they do.

\* k * 0.01 is above the double nearest to k/100:
\* 35 * 0.01 = 0.35000000000000003.
ProductAbove == {35}

\* k * 0.01 + 0.01 is above the double nearest to (k+1)/100:
\* 34 * 0.01 + 0.01 = 0.35000000000000003.
SumAbove == {5, 14, 17, 20, 23, 28, 34, 35}

\* k * 0.01 + 0.01 is below the double nearest to (k+1)/100:
\* 6 * 0.01 + 0.01 = 0.06999999999999999.
SumBelow == {6, 9}

\* (k/100) / 0.01 is below k: 0.29 / 0.01 = 28.999999999999996.
QuotientBelow == {29}

\* A double on a scale on which the one-unit misses are visible: twice the
\* steps of the decimal value, plus or minus one.
Double(steps, miss) == 2 * steps + miss

\* Math.floor(x / GRID_CELL_SIZE)
FloorCell(x) ==
    IF x % GRID_CELL_SIZE = 0 /\ (x \div GRID_CELL_SIZE) \in QuotientBelow
    THEN (x \div GRID_CELL_SIZE) - 1
    ELSE x \div GRID_CELL_SIZE

\* parseInt(part) * GRID_CELL_SIZE
CellCorner(k) ==
    Double(k * GRID_CELL_SIZE, IF k \in ProductAbove THEN 1 ELSE 0)

\* cellLat + GRID_CELL_SIZE
NextCorner(k) ==
    Double((k + 1) * GRID_CELL_SIZE,
           IF k \in SumAbove THEN 1 ELSE IF k \in SumBelow THEN -1 ELSE 0)

\* `issues:grid:${cellLat}:${cellLng}`, as the parts split(':') gives back.
CellKey(cellLat, cellLng) == <<"issues", "grid", cellLat, cellLng>>

getGridCellKey(lat, lng) == CellKey(FloorCell(lat), FloorCell(lng))

\* The keys in the order of the two nested loops.
getGridCellsForBounds(minLat, maxLat, minLng, maxLng) ==
    LET startLat == FloorCell(minLat)
        endLat == FloorCell(maxLat)
        startLng == FloorCell(minLng)
        endLng == FloorCell(maxLng)
        nLat == IF endLat < startLat THEN 0 ELSE endLat - startLat + 1
        nLng == IF endLng < startLng THEN 0 ELSE endLng - startLng + 1
    IN  [i \in 1 .. (nLat * nLng) |->
            CellKey(startLat + ((i - 1) \div nLng), startLng + ((i - 1) % nLng))]

\* The IssueSummary built from a stored row.
IssueSummary(row) ==
    [id |-> row.id,
     status |-> row.status,
     latitude |-> IF row.latitude = NullCoord THEN 0 ELSE row.latitude,
     longitude |-> IF row.longitude = NullCoord THEN 0 ELSE row.longitude,
     createdAt |-> row.createdAt]

\* redisClient.setex(`issue:summary:${issue.id}`, ...)
cacheIssueSummary(cache, summary) == MapSet(cache, summary.id, summary)

\* redisClient.get(`issue:summary:${issueId}`): the summary, or none.
getCachedIssueSummary(cache, issueId) ==
    IF issueId \in DOMAIN cache THEN <<cache[issueId]>> ELSE <<>>

\* Variant: the write appends to the list the key already holds.
appendGridCell(cache, cellKey, issueIds) ==
    MapSet(cache, cellKey, MapGet(cache, cellKey, << >>) \o issueIds)

\* redisClient.setex(cellKey, ...)
cacheGridCell(cache, cellKey, issueIds) == MapSet(cache, cellKey, issueIds)

\* redisClient.get(cellKey): the ID list, or none.
getCachedGridCell(cache, cellKey) ==
    IF cellKey \in DOMAIN cache THEN <<cache[cellKey]>> ELSE <<>>

\* The orders in which a query without orderBy may return its rows.
Orders(S) ==
    {s \in [1 .. Cardinality(S) -> S] :
        \A i, j \in 1 .. Cardinality(S) : s[i] = s[j] => i = j}

StatusMatches(row, includeResolved) ==
    includeResolved \/ row.status # "RESOLVED"

\* The rows of the per-cell range query: gte the cell's corner, lt the next.
CellRows(store, cellKey, includeResolved) ==
    LET cellLat == CellCorner(cellKey[3])
        cellLng == CellCorner(cellKey[4])
    IN  {store[id] : id \in
            {i \in DOMAIN store :
                /\ store[i].latitude # NullCoord
                /\ store[i].longitude # NullCoord
                /\ Double(store[i].latitude, 0) >= cellLat
                /\ Double(store[i].latitude, 0) < NextCorner(cellKey[3])
                /\ Double(store[i].longitude, 0) >= cellLng
                /\ Double(store[i].longitude, 0) < NextCorner(cellKey[4])
                /\ StatusMatches(store[i], includeResolved)}}

\* The rows of the direct range query: gte min, lte max.
BoundsRows(store, b, includeResolved) ==
    {store[id] : id \in
        {i \in DOMAIN store :
            /\ store[i].latitude # NullCoord
            /\ store[i].longitude # NullCoord
            /\ store[i].latitude >= b.minLat
            /\ store[i].latitude <= b.maxLat
            /\ store[i].longitude >= b.minLng
            /\ store[i].longitude <= b.maxLng
            /\ StatusMatches(store[i], includeResolved)}}

\* Set.add on a Set kept in insertion order.
SetAdd(seq, x) ==
    IF \E i \in 1 .. Len(seq) : seq[i] = x THEN seq ELSE Append(seq, x)

RECURSIVE AddAll(_, _)
AddAll(seq, xs) ==
    IF xs = <<>> THEN seq ELSE AddAll(SetAdd(seq, Head(xs)), Tail(xs))

NoBounds == Bounds(0, 0, 0, 0)

\* The locals of one getIssuesInBounds call.
NewRequest(b, includeResolved, at) ==
    [pc |-> at,
     bounds |-> b,
     includeResolved |-> includeResolved,
     cells |-> <<>>,          \* cells still to look up
     uncachedCells |-> <<>>,  \* missed cells still to fetch
     allIssueIds |-> <<>>,
     cellIssues |-> <<>>,     \* rows of the current cell still to cache
     ids |-> <<>>,            \* ids whose summary is still to fetch
     summary |-> <<>>,        \* the summary built by findUnique, if any
     results |-> <<>>,
     response |-> <<>>]

InBounds(summary, b) ==
    /\ summary.latitude >= b.minLat
    /\ summary.latitude <= b.maxLat
    /\ summary.longitude >= b.minLng
    /\ summary.longitude <= b.maxLng

\* The resolved filter alone.
PassesResolvedFilter(summary, q) ==
    q.includeResolved \/ summary.status # "RESOLVED"

\* The bounds filter alone.
PassesBoundsFilter(summary, q) == InBounds(summary, q.bounds)

\* The two filters of the final pass.
PassesFilter(summary, q) ==
    /\ q.includeResolved \/ summary.status # "RESOLVED"
    /\ InBounds(summary, q.bounds)

Push(q, summary) ==
    IF PassesFilter(summary, q)
    THEN [q EXCEPT !.results = Append(@, summary)]
    ELSE q

\* The head of the summary loop: return the results when no id is left.
Finish(q) ==
    IF q.ids = <<>>
    THEN [q EXCEPT !.pc = "done", !.response = q.results]
    ELSE [q EXCEPT !.pc = "readSummary"]

ToSummaries(q) == Finish([q EXCEPT !.ids = q.allIssueIds])

\* The end of the lookup loop over the cells.
AfterCellReads(q) ==
    IF q.cells # <<>> THEN [q EXCEPT !.pc = "readCells"]
    ELSE IF q.uncachedCells # <<>> THEN [q EXCEPT !.pc = "fetchCell"]
    ELSE ToSummaries(q)

\* The end of one round of the loop over the uncached cells.
AfterCellFetch(q) ==
    LET rest == [q EXCEPT !.uncachedCells = Tail(@)]
    IN  IF rest.uncachedCells # <<>> THEN [rest EXCEPT !.pc = "fetchCell"]
        ELSE ToSummaries(rest)

\* Entry without the cap on the number of cells.
getIssuesInBoundsUncapped(r) ==
    LET q == req[r]
        b == q.bounds
        cells == getGridCellsForBounds(b.minLat, b.maxLat, b.minLng, b.maxLng)
    IN  /\ q.pc = "call"
        /\ req' = [req EXCEPT ![r] = AfterCellReads([q EXCEPT !.cells = cells])]
        /\ UNCHANGED <<issues, cellCache, summaryCache, ttl, routeVars, maintVars>>

\* Entry: compute the cells and choose the path.  A queued call is made
\* once every other call has returned, an invalidated call once the
\* invalidateIssueCache call has returned, a late call more than
\* ISSUE_SUMMARY_TTL seconds after the store changed.
getIssuesInBounds(r) ==
    LET q == req[r]
        b == q.bounds
        cells == getGridCellsForBounds(b.minLat, b.maxLat, b.minLng, b.maxLng)
    IN  /\ \/ q.pc = "call"
           \/ /\ q.pc = "queued"
              /\ \A o \in Requests \ {r} : req[o].pc \in {"idle", "done"}
           \/ /\ q.pc = "invalidated"
              /\ inval.pc = "done"
           \/ /\ q.pc = "late"
              /\ inval.pc # "update"
              /\ ttl.now > ttl.changed + ISSUE_SUMMARY_TTL
        /\ req' = [req EXCEPT ![r] =
                     IF Len(cells) > MaxCells
                     THEN [q EXCEPT !.pc = "fallback"]
                     ELSE AfterCellReads([q EXCEPT !.cells = cells])]
        /\ UNCHANGED <<issues, cellCache, summaryCache, ttl, routeVars, maintVars>>

\* The first `take` rows of a query's answer, as summaries.
Taken(rows) ==
    LET n == IF Len(rows) > Take THEN Take ELSE Len(rows)
    IN  [i \in 1 .. n |-> IssueSummary(rows[i])]

\* The direct query, without caching.
fetchIssuesFromDb(r) ==
    LET q == req[r]
    IN  /\ q.pc = "fallback"
        /\ \E rows \in Orders(BoundsRows(issues, q.bounds, q.includeResolved)) :
              req' = [req EXCEPT ![r] =
                        [q EXCEPT !.pc = "done", !.response = Taken(rows)]]
        /\ UNCHANGED <<issues, cellCache, summaryCache, ttl, routeVars, maintVars>>

\* await getCachedGridCell(cell) for the next cell.
ReadCell(r) ==
    LET q == req[r]
        cell == Head(q.cells)
        cachedIds == getCachedGridCell(cellCache, cell)
    IN  /\ q.pc = "readCells"
        /\ req' = [req EXCEPT ![r] =
                     AfterCellReads(
                        IF cachedIds # <<>>
                        THEN [q EXCEPT !.cells = Tail(@),
                                       !.allIssueIds = AddAll(@, cachedIds[1])]
                        ELSE [q EXCEPT !.cells = Tail(@),
                                       !.uncachedCells = Append(@, cell)])]
        /\ UNCHANGED <<issues, cellCache, summaryCache, ttl, routeVars, maintVars>>

\* await prisma.issue.findMany for the next uncached cell.
FetchCell(r) ==
    LET q == req[r]
        cellKey == Head(q.uncachedCells)
    IN  /\ q.pc = "fetchCell"
        /\ \E rows \in Orders(CellRows(issues, cellKey, q.includeResolved)) :
              req' = [req EXCEPT ![r] =
                        [q EXCEPT !.pc = "cacheCell", !.cellIssues = rows]]
        /\ UNCHANGED <<issues, cellCache, summaryCache, ttl, routeVars, maintVars>>

\* await cacheGridCell(cellKey, issueIds)
CacheCell(r) ==
    LET q == req[r]
        cellKey == Head(q.uncachedCells)
        issueIds == [i \in 1 .. Len(q.cellIssues) |-> q.cellIssues[i].id]
    IN  /\ q.pc = "cacheCell"
        /\ cellCache' = cacheGridCell(cellCache, cellKey, issueIds)
        /\ ttl' = ExpireCell(ttl, cellKey, CACHE_TTL)
        /\ req' = [req EXCEPT ![r] =
                     IF q.cellIssues = <<>> THEN AfterCellFetch(q)
                     ELSE [q EXCEPT !.pc = "cacheSummary"]]
        /\ UNCHANGED <<issues, summaryCache, routeVars, maintVars>>

\* await cacheIssueSummary(summary) for the next row of the cell.
CacheCellSummary(r) ==
    LET q == req[r]
        issue == Head(q.cellIssues)
        added == [q EXCEPT !.cellIssues = Tail(@),
                           !.allIssueIds = SetAdd(@, issue.id)]
    IN  /\ q.pc = "cacheSummary"
        /\ summaryCache' = cacheIssueSummary(summaryCache, IssueSummary(issue))
        /\ ttl' = ExpireSummary(ttl, issue.id, ISSUE_SUMMARY_TTL)
        /\ req' = [req EXCEPT ![r] =
                     IF added.cellIssues = <<>> THEN AfterCellFetch(added)
                     ELSE added]
        /\ UNCHANGED <<issues, cellCache, routeVars, maintVars>>

\* await getCachedIssueSummary(id) for the next id.
ReadSummary(r) ==
    LET q == req[r]
        id == Head(q.ids)
        cached == getCachedIssueSummary(summaryCache, id)
    IN  /\ q.pc = "readSummary"
        /\ req' = [req EXCEPT ![r] =
                     IF cached # <<>>
                     THEN Finish(Push([q EXCEPT !.ids = Tail(@)], cached[1]))
                     ELSE [q EXCEPT !.pc = "findUnique"]]
        /\ UNCHANGED <<issues, cellCache, summaryCache, ttl, routeVars, maintVars>>

\* await prisma.issue.findUnique({ where: { id } })
FindUnique(r) ==
    LET q == req[r]
        id == Head(q.ids)
    IN  /\ q.pc = "findUnique"
        /\ req' = [req EXCEPT ![r] =
                     IF id \in DOMAIN issues
                     THEN [q EXCEPT !.pc = "storeSummary",
                                    !.summary = <<IssueSummary(issues[id])>>]
                     ELSE Finish([q EXCEPT !.ids = Tail(@)])]
        /\ UNCHANGED <<issues, cellCache, summaryCache, ttl, routeVars, maintVars>>

\* await cacheIssueSummary(summary) for the summary findUnique built.
StoreSummary(r) ==
    LET q == req[r]
        summary == q.summary[1]
    IN  /\ q.pc = "storeSummary"
        /\ summaryCache' = cacheIssueSummary(summaryCache, summary)
        /\ ttl' = ExpireSummary(ttl, summary.id, ISSUE_SUMMARY_TTL)
        /\ req' = [req EXCEPT ![r] =
                     Finish(Push([q EXCEPT !.ids = Tail(@), !.summary = <<>>],
                                 summary))]
        /\ UNCHANGED <<issues, cellCache, routeVars, maintVars>>

\* The cache service is unavailable: the redisClient call the request awaits
\* rejects.  No caller up to getIssuesInBounds catches it, so the call
\* rejects too.
CacheFails(r) ==
    LET q == req[r]
    IN  /\ q.pc \in {"readCells", "cacheCell", "cacheSummary", "readSummary",
                     "storeSummary"}
        /\ req' = [req EXCEPT ![r] = [q EXCEPT !.pc = "failed"]]
        /\ UNCHANGED <<issues, cellCache, summaryCache, ttl, routeVars, maintVars>>

\* TickSeconds pass: Redis drops every key whose expiry time has come.
Tick ==
    /\ ttl.now < MaxTime
    /\ LET now == ttl.now + TickSeconds
           cells == {k \in DOMAIN cellCache : ttl.cell[k] > now}
           summaries == {id \in DOMAIN summaryCache : ttl.summary[id] > now}
       IN  /\ cellCache' = [k \in cells |-> cellCache[k]]
           /\ summaryCache' = [id \in summaries |-> summaryCache[id]]
           /\ ttl' = [now |-> now,
                      changed |-> ttl.changed,
                      cell |-> [k \in cells |-> ttl.cell[k]],
                      summary |-> [id \in summaries |-> ttl.summary[id]]]
    /\ UNCHANGED <<issues, req, routeVars, maintVars>>

\* No request in flight and nothing stored or cached.
CacheIdle ==
    /\ issues = EmptyMap
    /\ cellCache = EmptyMap
    /\ summaryCache = EmptyMap
    /\ req = [r \in Requests |-> NewRequest(NoBounds, FALSE, "idle")]
    /\ ttl = JustWritten(EmptyMap, EmptyMap)

\* Where an issue may lie: inside cell (0,0), on the corner of cell (1,0),
\* further inside cell (1,0), in cell (-1,0), or nowhere.
Points == {<<5, 5>>, <<10, 5>>, <<12, 5>>, <<-3, 5>>, <<NullCoord, NullCoord>>}

\* Request boxes: two that cut through cells, one of 11 x 11 cells.
Boxes == {Bounds(2, 10, 2, 8), Bounds(-5, 4, 0, 9), Bounds(0, 100, 0, 100)}

FirstIssue == {IssueRow(1, p[1], p[2], s) : p \in Points, s \in Statuses}
SecondIssue == {IssueRow(2, 12, 5, "OPEN"), IssueRow(2, 5, 5, "RESOLVED")}

Stores ==
    {[i \in {1} |-> a] : a \in FirstIssue}
    \cup {[i \in IssueIds |-> IF i = 1 THEN ab[1] ELSE ab[2]] :
             ab \in FirstIssue \X SecondIssue}

\* No store change, invalidation or import under way.
NoInvalidation ==
    [pc |-> "idle", issueId |-> 0, hasCoords |-> FALSE,
     hasLat |-> FALSE, hasLng |-> FALSE, lat |-> 0, lng |-> 0]

NoImport == [pc |-> "idle"]

MaintIdle ==
    /\ inval = NoInvalidation
    /\ imp = NoImport

\* The record of an issue changes in the store; the writer then calls
\* invalidateIssueCache with the issue's id and, or not, its coordinates.
UpdateIssue ==
    /\ inval.pc = "update"
    /\ \E id \in DOMAIN issues, row \in FirstIssue, hasCoords \in BOOLEAN :
          /\ row.id = id
          /\ row # issues[id]
          /\ hasCoords => row.latitude # NullCoord
          /\ issues' = [issues EXCEPT ![id] = row]
          /\ inval' = [pc |-> "delSummary", issueId |-> id,
                       hasCoords |-> hasCoords,
                       hasLat |-> hasCoords, hasLng |-> hasCoords,
                       lat |-> IF hasCoords THEN row.latitude ELSE 0,
                       lng |-> IF hasCoords THEN row.longitude ELSE 0]
    /\ ttl' = [ttl EXCEPT !.changed = ttl.now]
    /\ UNCHANGED <<cellCache, summaryCache, req, imp, routeVars>>

\* Latitudes a caller may pass: of cells 0, 1, -1 and 2.
InvalidateLats == {5, 12, -3, 25}

\* invalidateIssueCache(issueId, lat?, lng?) is called: any issue id, either
\* coordinate supplied or left undefined.
CallInvalidate ==
    /\ inval.pc = "call"
    /\ \E id \in IssueIds, lat \in InvalidateLats, hasLat \in BOOLEAN,
          hasLng \in BOOLEAN :
          inval' = [pc |-> "delSummary", issueId |-> id,
                    hasCoords |-> hasLat /\ hasLng,
                    hasLat |-> hasLat, hasLng |-> hasLng,
                    lat |-> IF hasLat THEN lat ELSE 0,
                    lng |-> IF hasLng THEN 5 ELSE 0]
    /\ UNCHANGED <<issues, cellCache, summaryCache, ttl, req, imp, routeVars>>

\* Variant: `if (lat !== undefined || lng !== undefined)`, the missing
\* coordinate taken as 0.
InvalidateSummaryEitherCoord ==
    /\ inval.pc = "delSummary"
    /\ summaryCache' = [id \in DOMAIN summaryCache \ {inval.issueId} |->
                          summaryCache[id]]
    /\ ttl' = [ttl EXCEPT !.summary = [id \in DOMAIN @ \ {inval.issueId} |-> @[id]]]
    /\ inval' = [inval EXCEPT !.pc = IF inval.hasLat \/ inval.hasLng
                                     THEN "delCell" ELSE "done"]
    /\ UNCHANGED <<issues, cellCache, req, imp, routeVars>>

\* await redisClient.del(`issue:summary:${issueId}`), then
\* `if (lat !== undefined && lng !== undefined)`.
InvalidateSummary ==
    /\ inval.pc = "delSummary"
    /\ summaryCache' = [id \in DOMAIN summaryCache \ {inval.issueId} |->
                          summaryCache[id]]
    /\ ttl' = [ttl EXCEPT !.summary = [id \in DOMAIN @ \ {inval.issueId} |-> @[id]]]
    /\ inval' = [inval EXCEPT !.pc = IF inval.hasLat /\ inval.hasLng
                                     THEN "delCell" ELSE "done"]
    /\ UNCHANGED <<issues, cellCache, req, imp, routeVars>>

\* await redisClient.del(getGridCellKey(lat, lng))
InvalidateCell ==
    /\ inval.pc = "delCell"
    /\ cellCache' = [k \in DOMAIN cellCache \
                             {getGridCellKey(inval.lat, inval.lng)} |->
                        cellCache[k]]
    /\ ttl' = [ttl EXCEPT !.cell = [k \in DOMAIN @ \
                                      {getGridCellKey(inval.lat, inval.lng)} |-> @[k]]]
    /\ inval' = [inval EXCEPT !.pc = "done"]
    /\ UNCHANGED <<issues, summaryCache, req, imp, routeVars>>

----------------------------------------------------------------------------
(* Specifications *)

\* Graphs whose edges carry the distance the import computes, under every
\* choice of present edges and penalties.
InitImportedGraph ==
    \E layout \in Layouts, present \in SUBSET (1 .. NSlots), mirror \in BOOLEAN :
       \E pen \in [present -> Penalties] :
          /\ nodes = layout
          /\ edges = SlotRows(layout, present, pen, mirror, 1)

\* The four-node scenario graph on squares of several sizes.
InitScenarioGraph ==
    \E side \in ScenarioSides :
       /\ nodes = SquareLayout(side)
       /\ edges = ScenarioEdges

InitCall(active) ==
    /\ pc = [c \in Callers |-> IF c \in active THEN "snapStart" ELSE "idle"]
    /\ startNode = [c \in Callers |-> Null]
    /\ endNode = [c \in Callers |-> Null]
    /\ snapRows = [c \in Callers |-> [start |-> NoRow, end |-> NoRow]]
    /\ nodeMap = [c \in Callers |-> EmptyMap]
    /\ adjacency = [c \in Callers |-> EmptyMap]
    /\ openSet = [c \in Callers |-> {}]
    /\ gScore = [c \in Callers |-> EmptyMap]
    /\ cameFrom = [c \in Callers |-> EmptyMap]
    /\ distanceFrom = [c \in Callers |-> EmptyMap]
    /\ visited = [c \in Callers |-> {}]
    /\ result = [c \in Callers |-> NullResult]

\* One caller, every graph.
Init ==
    /\ InitImportedGraph \/ InitScenarioGraph
    /\ \E q \in Queries(nodes) :
          query = [c \in Callers |-> IF c = "c1" THEN q ELSE NoQuery]
    /\ InitCall({"c1"})
    /\ CacheIdle
    /\ MaintIdle

\* Two callers at once, on the square of side 0.002 degree, every present
\* edge at penalty 1 or at the largest penalty.
InitTwo ==
    /\ \E present \in SUBSET (1 .. NSlots) :
          \E pen \in [present -> {One, MaxPenalty}] :
             /\ nodes = SquareLayout(2)
             /\ edges = SlotRows(SquareLayout(2), present, pen, FALSE, 1)
    /\ \E q1 \in Queries(nodes), q2 \in Queries(nodes) :
          query = [c \in Callers |-> IF c = "c1" THEN q1 ELSE q2]
    /\ InitCall(Callers)
    /\ CacheIdle
    /\ MaintIdle

Next ==
    \E c \in Callers :
       \/ SnapStart(c)
       \/ SnapEnd(c)
       \/ LoadGraph(c)
       \/ ReachEnd(c)
       \/ SkipVisited(c)
       \/ Expand(c)
       \/ NoPath(c)

Spec == Init /\ [][Next]_vars

SpecTwo == InitTwo /\ [][Next]_vars

\* No findPath call in flight.
RouteIdle ==
    /\ nodes = LineLayout
    /\ edges = <<>>
    /\ query = [c \in Callers |-> NoQuery]
    /\ InitCall({})

\* The cells the two small boxes cover.
WarmKeys == {CellKey(-1, 0), CellKey(0, 0), CellKey(1, 0)}

\* What earlier calls left in the cache when the store held `store`.
WarmCells(store, includeResolved) ==
    [k \in WarmKeys |->
        LET rows == CellRows(store, k, includeResolved)
            byId == CHOOSE s \in Orders(rows) :
                       \A i, j \in 1 .. Len(s) : i < j => s[i].id < s[j].id
        IN  [i \in 1 .. Len(byId) |-> byId[i].id]]

WarmSummaries(store) == [id \in DOMAIN store |-> IssueSummary(store[id])]

\* One request over every store, with a cache that is empty or was filled
\* when issue 1 was stored differently and issue 2 was not yet deleted.
CacheInit ==
    /\ \E store \in Stores, old \in Stores,
          warm \in {"cold", "unresolved", "all"}, summaries \in BOOLEAN :
          /\ DOMAIN store \subseteq DOMAIN old
          /\ \A i \in DOMAIN store \ {1} : old[i] = store[i]
          /\ issues = store
          /\ cellCache = IF warm = "cold" THEN EmptyMap
                         ELSE WarmCells(old, warm = "all")
          /\ summaryCache = IF summaries THEN WarmSummaries(old) ELSE EmptyMap
    /\ \E b \in Boxes, includeResolved \in BOOLEAN :
          req = [r \in Requests |->
                   IF r = "r1" THEN NewRequest(b, includeResolved, "call")
                   ELSE NewRequest(NoBounds, FALSE, "idle")]
    /\ RouteIdle
    /\ ttl = JustWritten(cellCache, summaryCache)
    /\ MaintIdle

CacheNext ==
    \E r \in Requests :
       \/ getIssuesInBounds(r)
       \/ fetchIssuesFromDb(r)
       \/ ReadCell(r)
       \/ FetchCell(r)
       \/ CacheCell(r)
       \/ CacheCellSummary(r)
       \/ ReadSummary(r)
       \/ FindUnique(r)
       \/ StoreSummary(r)

CacheSpec == CacheInit /\ [][CacheNext]_vars

\* An unchanging store and an empty cache: r1 is called first and r2 once r1
\* has returned, each with any box and either includeResolved value.
WarmInit ==
    /\ \E store \in Stores : issues = store
    /\ cellCache = EmptyMap
    /\ summaryCache = EmptyMap
    /\ \E b1 \in Boxes, b2 \in Boxes, r1 \in BOOLEAN, r2 \in BOOLEAN :
          req = [r \in Requests |->
                   IF r = "r1" THEN NewRequest(b1, r1, "call")
                   ELSE NewRequest(b2, r2, "queued")]
    /\ RouteIdle
    /\ ttl = JustWritten(cellCache, summaryCache)
    /\ MaintIdle

\* Over a store that holds every cached id, no summary of a cached id is
\* ever missing, so findUnique is never reached.
WarmNext ==
    \E r \in Requests :
       \/ getIssuesInBounds(r)
       \/ fetchIssuesFromDb(r)
       \/ ReadCell(r)
       \/ FetchCell(r)
       \/ CacheCell(r)
       \/ CacheCellSummary(r)
       \/ ReadSummary(r)

WarmSpec == WarmInit /\ [][WarmNext]_vars

\* One stored issue, a cache that is empty or warm, a call r1 that runs
\* beside the store change and the invalidation, and a call r2 that starts
\* once the invalidation has returned.
InvalidateInit ==
    /\ \E row \in FirstIssue, warm \in BOOLEAN :
          /\ issues = [i \in {1} |-> row]
          /\ cellCache = IF warm THEN WarmCells(issues, TRUE) ELSE EmptyMap
          /\ summaryCache = IF warm THEN WarmSummaries(issues) ELSE EmptyMap
    /\ \E b1 \in Boxes, b2 \in Boxes, includeResolved \in BOOLEAN :
          req = [r \in Requests |->
                   IF r = "r1" THEN NewRequest(b1, includeResolved, "call")
                   ELSE NewRequest(b2, includeResolved, "invalidated")]
    /\ inval = [NoInvalidation EXCEPT !.pc = "update"]
    /\ imp = NoImport
    /\ RouteIdle
    /\ ttl = JustWritten(cellCache, summaryCache)

InvalidateNext ==
    \/ UpdateIssue
    \/ InvalidateSummary
    \/ InvalidateCell
    \/ CacheNext

InvalidateSpec == InvalidateInit /\ [][InvalidateNext]_vars

\* Boxes around the cap: 10 x 10 = 100 cells, 1 x 101 = 101 cells and
\* 10 x 15 = 150 cells.
CapBoxes == {Bounds(0, 99, 0, 99), Bounds(0, 5, 0, 1009), Bounds(0, 99, 0, 149)}

\* One request with a box around the cap, over every store, with cell lists
\* and summaries cached or not.
CapInit ==
    /\ \E store \in Stores, cells \in BOOLEAN, summaries \in BOOLEAN :
          /\ issues = store
          /\ cellCache = IF cells THEN WarmCells(store, TRUE) ELSE EmptyMap
          /\ summaryCache = IF summaries THEN WarmSummaries(store) ELSE EmptyMap
    /\ \E b \in CapBoxes, includeResolved \in BOOLEAN :
          req = [r \in Requests |->
                   IF r = "r1" THEN NewRequest(b, includeResolved, "call")
                   ELSE NewRequest(NoBounds, FALSE, "idle")]
    /\ RouteIdle
    /\ ttl = JustWritten(cellCache, summaryCache)
    /\ MaintIdle

CapSpec == CapInit /\ [][CacheNext]_vars

\* Three issues, each inside or outside the box of 11 x 11 cells, one more
\* than the direct query returns.
TakeStores ==
    {[i \in 1 .. Take + 1 |-> IssueRow(i, p[i][1], p[i][2], st[i])] :
        p \in [1 .. Take + 1 -> {<<5, 5>>, <<12, 5>>, <<-3, 5>>}],
        st \in [1 .. Take + 1 -> Statuses]}

TakeInit ==
    /\ \E store \in TakeStores : issues = store
    /\ cellCache = EmptyMap
    /\ summaryCache = EmptyMap
    /\ \E includeResolved \in BOOLEAN :
          req = [r \in Requests |->
                   IF r = "r1"
                   THEN NewRequest(Bounds(0, 100, 0, 100), includeResolved, "call")
                   ELSE NewRequest(NoBounds, FALSE, "idle")]
    /\ RouteIdle
    /\ ttl = JustWritten(cellCache, summaryCache)
    /\ MaintIdle

\* A box of more than 100 cells only ever takes the direct query.
TakeNext ==
    \E r \in Requests :
       \/ getIssuesInBounds(r)
       \/ fetchIssuesFromDb(r)

TakeSpec == TakeInit /\ [][TakeNext]_vars

\* The calls of CacheSpec with a cache service that may fail at any call.
FailNext ==
    \/ CacheNext
    \/ \E r \in Requests : CacheFails(r)

FailSpec == CacheInit /\ [][FailNext]_vars

----------------------------------------------------------------------------
(* The graph import: importGraph *)

\* The k-th identifier the store generates: uuid(), never handed out twice.
Uuid(k) ==
    << "u1", "u2", "u3", "u4", "u5", "u6", "u7", "u8", "u9", "u10", "u11",
       "u12", "u13", "u14", "u15", "u16", "u17", "u18", "u19", "u20", "u21",
       "u22", "u23", "u24" >>[k]

\* A GraphNode row written by the import.
NodeRow(osmId, coord) ==
    [osmId |-> osmId, latitude |-> coord.latitude, longitude |-> coord.longitude]

\* The node elements the provider may answer with: three nodes, or the
\* first two only (a way may then name a node without coordinates).
OsmCoords ==
    [id \in 1 .. 3 |->
        CASE id = 1 -> Coord(0, 0)
          [] id = 2 -> Coord(0, 2)
          [] id = 3 -> Coord(2, 2)]

ProviderNodes == {OsmCoords, [id \in 1 .. 2 |-> OsmCoords[id]]}

\* The way elements the provider may answer with: one way of two segments,
\* the same segment in two ways and in both directions, a triangle of three
\* ways, a way that repeats a node, and no way at all.
ProviderWays ==
    { << <<1, 2, 3>> >>,
      << <<1, 2>>, <<2, 1>> >>,
      << <<1, 2>>, <<2, 3>>, <<3, 1>> >>,
      << <<2, 2, 3>> >>,
      << >> }

RECURSIVE Concat(_)
Concat(seqs) == IF seqs = << >> THEN << >> ELSE Head(seqs) \o Concat(Tail(seqs))

\* The consecutive node pairs of the ways, in the order of the two loops.
WayPairs(ways) ==
    Concat([w \in 1 .. Len(ways) |->
              [i \in 1 .. Len(ways[w]) - 1 |-> <<ways[w][i], ways[w][i + 1]>>]])

\* The locals of an importGraph run over the given provider answer.  `run`
\* counts the runs, `uuid` the identifiers handed out so far, and `before`
\* keeps the store as it was when the run started.
NewImport(data) ==
    [pc |-> "deleteEdges",
     run |-> 1,
     data |-> data,
     osmNodes |-> EmptyMap,
     ways |-> << >>,
     nodesToCreate |-> << >>,
     nodeIdMap |-> EmptyMap,
     uuid |-> 0,
     events |-> 0,
     before |-> [nodes |-> EmptyMap, edges |-> << >>]]

\* Only the forward edge of every pair.
ForwardEdgesOnly(pairs, osmNodes, nodeIdMap, uuid) ==
    [k \in 1 .. Len(pairs) |->
        EdgeRow(uuid + k, nodeIdMap[pairs[k][1]], nodeIdMap[pairs[k][2]],
                calculateDistance(osmNodes, pairs[k][1], pairs[k][2]), One)]

\* edgesToCreate: for every pair the forward edge, then the reverse edge,
\* with the same distance and the default penalty 1.0.
EdgesToCreate(pairs, osmNodes, nodeIdMap, uuid) ==
    [k \in 1 .. 2 * Len(pairs) |->
        LET pair == pairs[(k + 1) \div 2]
            distance == calculateDistance(osmNodes, pair[1], pair[2])
        IN  IF k % 2 = 1
            THEN EdgeRow(uuid + k, nodeIdMap[pair[1]], nodeIdMap[pair[2]],
                         distance, One)
            ELSE EdgeRow(uuid + k, nodeIdMap[pair[2]], nodeIdMap[pair[1]],
                         distance, One)]

importUnchanged == <<callVars, cacheVars, inval>>

\* Variant: the edges are left in place and the import goes on to clear the
\* nodes.
KeepEdges ==
    /\ imp.pc = "deleteEdges"
    /\ edges' = edges
    /\ imp' = [imp EXCEPT !.pc = "deleteNodes"]
    /\ UNCHANGED <<nodes, importUnchanged>>

\* await prisma.graphEdge.deleteMany({})
DeleteEdges ==
    /\ imp.pc = "deleteEdges"
    /\ edges' = << >>
    /\ imp' = [imp EXCEPT !.pc = "deleteNodes"]
    /\ UNCHANGED <<nodes, importUnchanged>>

\* await prisma.graphNode.deleteMany({})
DeleteNodes ==
    /\ imp.pc = "deleteNodes"
    /\ nodes' = EmptyMap
    /\ imp' = [imp EXCEPT !.pc = "fetch"]
    /\ UNCHANGED <<edges, importUnchanged>>

\* await fetchOSMData() answers.
FetchOSMData ==
    /\ imp.pc = "fetch"
    /\ imp' = [imp EXCEPT !.pc = "createNodes",
                          !.osmNodes = imp.data.osmNodes,
                          !.ways = imp.data.ways]
    /\ UNCHANGED <<graphVars, importUnchanged>>

\* await fetchOSMData() rejects (request error or the 60 s timeout): the
\* import rejects and the process exits with 1.
FetchFails ==
    /\ imp.pc = "fetch"
    /\ imp' = [imp EXCEPT !.pc = "failed"]
    /\ UNCHANGED <<graphVars, importUnchanged>>

\* await prisma.graphNode.createMany({ data: nodesToCreate, skipDuplicates })
CreateNodes ==
    /\ imp.pc = "createNodes"
    /\ LET usedNodeIds == AddAll(<< >>, Concat(imp.ways))
           HasCoords(osmId) == osmId \in DOMAIN imp.osmNodes
           nodesToCreate == SelectSeq(usedNodeIds, HasCoords)
           NotStored(osmId) == \A n \in DOMAIN nodes : nodes[n].osmId # osmId
           inserted == SelectSeq(nodesToCreate, NotStored)
           newIds == {Uuid(imp.uuid + i) : i \in 1 .. Len(inserted)}
           Created(n) == inserted[CHOOSE i \in 1 .. Len(inserted) :
                                     Uuid(imp.uuid + i) = n]
       IN  /\ nodes' = [n \in (DOMAIN nodes) \cup newIds |->
                          IF n \in DOMAIN nodes THEN nodes[n]
                          ELSE NodeRow(Created(n), imp.osmNodes[Created(n)])]
           /\ imp' = [imp EXCEPT !.pc = "findNodes",
                                 !.nodesToCreate = nodesToCreate,
                                 !.uuid = @ + Len(inserted)]
    /\ UNCHANGED <<edges, importUnchanged>>

\* await prisma.graphNode.findMany(...) and the nodeIdMap built from it.
FindCreatedNodes ==
    /\ imp.pc = "findNodes"
    /\ LET wanted == {imp.nodesToCreate[i] : i \in 1 .. Len(imp.nodesToCreate)}
           found == {osmId \in wanted :
                       \E n \in DOMAIN nodes : nodes[n].osmId = osmId}
       IN  imp' = [imp EXCEPT !.pc = "createEdges",
                              !.nodeIdMap =
                                 [osmId \in found |->
                                    CHOOSE n \in DOMAIN nodes :
                                       nodes[n].osmId = osmId]]
    /\ UNCHANGED <<graphVars, importUnchanged>>

\* await prisma.graphEdge.createMany({ data: edgesToCreate, skipDuplicates }):
\* the table has no unique key but its id, so no row is skipped.
CreateEdges ==
    /\ imp.pc = "createEdges"
    /\ LET Usable(pair) ==
              /\ pair[1] \in DOMAIN imp.osmNodes
              /\ pair[2] \in DOMAIN imp.osmNodes
              /\ pair[1] \in DOMAIN imp.nodeIdMap
              /\ pair[2] \in DOMAIN imp.nodeIdMap
           pairs == SelectSeq(WayPairs(imp.ways), Usable)
           rows == EdgesToCreate(pairs, imp.osmNodes, imp.nodeIdMap, imp.uuid)
       IN  /\ edges' = edges \o rows
           /\ imp' = [imp EXCEPT !.pc = "count", !.uuid = @ + Len(rows)]
    /\ UNCHANGED <<nodes, importUnchanged>>

\* The two counts, and the import resolves.
CountRows ==
    /\ imp.pc = "count"
    /\ imp' = [imp EXCEPT !.pc = "imported"]
    /\ UNCHANGED <<graphVars, importUnchanged>>

\* An issue event sets the penalty of a stored edge.
SetPenalty ==
    /\ imp.pc = "imported"
    /\ imp.run = 1
    /\ imp.events = 0
    /\ \E i \in 1 .. Len(edges), penalty \in Penalties \ {One} :
          edges' = [edges EXCEPT ![i].penalty = penalty]
    /\ imp' = [imp EXCEPT !.events = 1]
    /\ UNCHANGED <<nodes, importUnchanged>>

\* The import is run again over the same provider answer.
Reimport ==
    /\ imp.pc = "imported"
    /\ imp.run = 1
    /\ imp' = [imp EXCEPT !.pc = "deleteEdges",
                          !.run = 2,
                          !.before = [nodes |-> nodes, edges |-> edges]]
    /\ UNCHANGED <<graphVars, importUnchanged>>

\* An empty store and a first import of every provider answer.
ImportInit ==
    /\ nodes = EmptyMap
    /\ edges = << >>
    /\ query = [c \in Callers |-> NoQuery]
    /\ InitCall({})
    /\ CacheIdle
    /\ inval = NoInvalidation
    /\ \E osmNodes \in ProviderNodes, ways \in ProviderWays :
          imp = NewImport([osmNodes |-> osmNodes, ways |-> ways])

ImportNext ==
    \/ DeleteEdges
    \/ DeleteNodes
    \/ FetchOSMData
    \/ FetchFails
    \/ CreateNodes
    \/ FindCreatedNodes
    \/ CreateEdges
    \/ CountRows
    \/ SetPenalty
    \/ Reimport

ImportSpec == ImportInit /\ [][ImportNext]_vars

----------------------------------------------------------------------------
(* Two identical requests at once *)

\* An unchanging store and an empty cache: r1 and r2 are called together
\* with the same box and the same includeResolved.
ConcurrentInit ==
    /\ \E store \in Stores : issues = store
    /\ cellCache = EmptyMap
    /\ summaryCache = EmptyMap
    /\ \E b \in Boxes, includeResolved \in BOOLEAN :
          req = [r \in Requests |-> NewRequest(b, includeResolved, "call")]
    /\ RouteIdle
    /\ ttl = JustWritten(cellCache, summaryCache)
    /\ MaintIdle

ConcurrentSpec == ConcurrentInit /\ [][CacheNext]_vars

----------------------------------------------------------------------------
(* Graphs with cycles, parallel edges and zero-distance edges *)

\* Candidate edge rows on the square: a zero-distance self-loop, a pair of
\* parallel edges one of which has distance 0, edges in both directions,
\* a zero-distance edge back, and the cycle A, B, C, D, A.
LoopSlots ==
    << <<"A", "A", FALSE>>, <<"A", "B", TRUE>>, <<"A", "B", FALSE>>,
       <<"B", "A", TRUE>>, <<"B", "C", TRUE>>, <<"C", "B", FALSE>>,
       <<"C", "D", TRUE>>, <<"D", "A", TRUE>> >>

RECURSIVE LoopRows(_, _, _, _)
\* The rows of the chosen candidates, all with the given penalty; a
\* candidate marked FALSE has distance 0.
LoopRows(layout, present, pen, i) ==
    IF i > Len(LoopSlots) THEN << >>
    ELSE LET u == LoopSlots[i][1]
             v == LoopSlots[i][2]
             d == IF LoopSlots[i][3] THEN calculateDistance(layout, u, v) ELSE 0
             rest == LoopRows(layout, present, pen, i + 1)
         IN  IF i \in present THEN << EdgeRow(i, u, v, d, pen) >> \o rest
             ELSE rest

\* The candidates every graph holds, and those a graph may hold.
LoopFixed == {2, 4, 5, 7}
LoopOptional == {1, 3, 6, 8}

\* Requests that snap exactly, forwards, backwards and from a node to itself,
\* and one whose start is out of reach of every radius.
LoopQueries(layout) ==
    { QueryNear(layout, "A", 0, "D", 0),
      QueryNear(layout, "D", 0, "A", 0),
      QueryNear(layout, "B", 0, "B", 0),
      QueryNear(layout, "A", 70, "D", 0) }

\* One caller, every choice of the optional edges, one penalty >= 0 for all.
LoopInit ==
    /\ \E optional \in SUBSET LoopOptional, pen \in {0, One, MaxPenalty} :
          /\ nodes = SquareLayout(2)
          /\ edges = LoopRows(SquareLayout(2), LoopFixed \cup optional, pen, 1)
    /\ \E q \in LoopQueries(nodes) :
          query = [c \in Callers |-> IF c = "c1" THEN q ELSE NoQuery]
    /\ InitCall({"c1"})
    /\ CacheIdle
    /\ MaintIdle

\* A call that can take a step takes it: the event loop resumes every
\* continuation whose await has settled.
LoopSpec == LoopInit /\ [][Next]_vars /\ WF_vars(Next)

\* Issues on and beside the corner 0.35 of cell 35, or without coordinates.
CornerPoints == {<<350, 5>>, <<352, 5>>, <<345, 5>>, <<NullCoord, NullCoord>>}

\* Boxes that start on the corner, before it, and that end on it.
CornerBoxes ==
    {Bounds(350, 355, 0, 9), Bounds(345, 355, 0, 9), Bounds(341, 350, 2, 8)}

CornerStores ==
    {[i \in {1} |-> IssueRow(1, p[1], p[2], s)] : p \in CornerPoints, s \in Statuses}
    \cup {[i \in IssueIds |->
             IF i = 1 THEN IssueRow(1, p[1], p[2], s)
             ELSE IssueRow(2, 352, 5, "OPEN")] :
             p \in CornerPoints, s \in Statuses}

\* One call on an empty cache over an unchanging store.
ColdInit ==
    /\ \E store \in CornerStores : issues = store
    /\ cellCache = EmptyMap
    /\ summaryCache = EmptyMap
    /\ \E b \in CornerBoxes, includeResolved \in BOOLEAN :
          req = [r \in Requests |->
                   IF r = "r1" THEN NewRequest(b, includeResolved, "call")
                   ELSE NewRequest(NoBounds, FALSE, "idle")]
    /\ RouteIdle
    /\ ttl = JustWritten(cellCache, summaryCache)
    /\ MaintIdle

\* A single call over an empty cache finds the summary of every id it
\* collected, and these boxes are below the cap.
ColdNext ==
    \E r \in Requests :
       \/ getIssuesInBounds(r)
       \/ ReadCell(r)
       \/ FetchCell(r)
       \/ CacheCell(r)
       \/ CacheCellSummary(r)
       \/ ReadSummary(r)

ColdSpec == ColdInit /\ [][ColdNext]_vars

\* A warm cache over every store, no request in flight, and one call of
\* invalidateIssueCache.
FrameInit ==
    /\ \E store \in Stores :
          /\ issues = store
          /\ cellCache = WarmCells(store, TRUE)
          /\ summaryCache = WarmSummaries(store)
    /\ req = [r \in Requests |-> NewRequest(NoBounds, FALSE, "idle")]
    /\ inval = [NoInvalidation EXCEPT !.pc = "call"]
    /\ imp = NoImport
    /\ RouteIdle
    /\ ttl = JustWritten(cellCache, summaryCache)

FrameNext ==
    \/ CallInvalidate
    \/ InvalidateSummary
    \/ InvalidateCell

FrameSpec == FrameInit /\ [][FrameNext]_vars

----------------------------------------------------------------------------
(* Expiry *)

\* One stored issue and an empty cache at time 0.  Call r1 runs while the
\* store changes once and time passes; call r2, with the same box, starts
\* more than ISSUE_SUMMARY_TTL seconds after the change.
TtlInit ==
    /\ \E row \in FirstIssue : issues = [i \in {1} |-> row]
    /\ cellCache = EmptyMap
    /\ summaryCache = EmptyMap
    /\ ttl = JustWritten(EmptyMap, EmptyMap)
    /\ \E b \in {Bounds(2, 10, 2, 8), Bounds(-5, 4, 0, 9)},
          includeResolved \in BOOLEAN :
          req = [r \in Requests |->
                   IF r = "r1" THEN NewRequest(b, includeResolved, "call")
                   ELSE NewRequest(b, includeResolved, "late")]
    /\ inval = [NoInvalidation EXCEPT !.pc = "update"]
    /\ imp = NoImport
    /\ query = [c \in Callers |-> NoQuery]
    /\ nodes = LineLayout
    /\ edges = << >>
    /\ InitCall({})

\* The store changes without a call of invalidateIssueCache.
TtlNext ==
    \/ UpdateIssue
    \/ Tick
    \/ \E r \in Requests :
          \/ getIssuesInBounds(r)
          \/ ReadCell(r)
          \/ FetchCell(r)
          \/ CacheCell(r)
          \/ CacheCellSummary(r)
          \/ ReadSummary(r)
          \/ FindUnique(r)
          \/ StoreSummary(r)

TtlSpec == TtlInit /\ [][TtlNext]_vars

----------------------------------------------------------------------------
(* A findPath call beside an import *)

\* The requests of the call: between two imported nodes, from a node to
\* itself, and from a point that only the third radius brings to a node.
OverlapQueries == {Query(0, 0, 2, 2), Query(0, 0, 0, 0), Query(0, 8, 2, 2)}

\* An empty store, a first import about to run and a second one after it,
\* and one findPath call that may take each of its steps at any moment.
OverlapInit ==
    /\ nodes = EmptyMap
    /\ edges = << >>
    /\ \E q \in OverlapQueries :
          query = [c \in Callers |-> IF c = "c1" THEN q ELSE NoQuery]
    /\ InitCall({"c1"})
    /\ CacheIdle
    /\ inval = NoInvalidation
    /\ \E osmNodes \in ProviderNodes, ways \in ProviderWays :
          imp = NewImport([osmNodes |-> osmNodes, ways |-> ways])

OverlapNext ==
    \/ \E c \in Callers :
          \/ QueryStart(c)
          \/ QueryEnd(c)
          \/ LoadNodes(c)
          \/ LoadEdges(c)
          \/ ReachEnd(c)
          \/ Expand(c)
          \/ NoPath(c)
    \/ DeleteEdges
    \/ DeleteNodes
    \/ FetchOSMData
    \/ FetchFails
    \/ CreateNodes
    \/ FindCreatedNodes
    \/ CreateEdges
    \/ CountRows
    \/ Reimport

OverlapSpec == OverlapInit /\ [][OverlapNext]_vars

\* On three nodes no node is queued twice, so the step that skips a visited
\* node has nothing to skip and is left out of OverlapNext.
OverlapNeverSkips == \A c \in Callers : ~ENABLED SkipVisited(c)

----------------------------------------------------------------------------
(* What the properties speak about *)

Done(c) == pc[c] = "done"
Found(c) == Done(c) /\ result[c].kind = "PathResult"
Snapped(c) == startNode[c] # Null /\ endNode[c] # Null

\* The call has loaded the graph.
Loaded(c) == pc[c] = "search" \/ (Done(c) /\ Snapped(c))

EdgeSet == {edges[i] : i \in DOMAIN edges}

\* distance * effectivePenalty of the data model, in units of 1/PenaltyScale m.
TraversalCost(e) ==
    IF e.penalty = 0 THEN e.distance * PenaltyScale ELSE e.distance * e.penalty

StraightLine(u, v) ==
    heuristic(nodes[u].latitude, nodes[u].longitude,
              nodes[v].latitude, nodes[v].longitude)

Min(a, b) == IF LessThan(b, a) THEN b ELSE a

RECURSIVE MinOver(_)
MinOver(S) ==
    IF S = {} THEN Infinity
    ELSE LET x == CHOOSE y \in S : TRUE IN Min(x, MinOver(S \ {x}))

RECURSIVE Cheapest(_, _)
\* Bellman-Ford: after k rounds, the least cost of a directed edge path of
\* at most k edges from the node whose entry starts at 0.
Cheapest(cost, k) ==
    IF k = 0 THEN cost
    ELSE Cheapest(
           [n \in Nodes |->
              Min(cost[n],
                  MinOver({Plus(cost[e.startNodeId], TraversalCost(e)) :
                             e \in {x \in EdgeSet : x.endNodeId = n}}))],
           k - 1)

\* The least cost over all directed edge paths from u to v (Infinity: none).
MinCost(u, v) ==
    Cheapest([n \in Nodes |-> IF n = u THEN 0 ELSE Infinity],
             Cardinality(Nodes))[v]

RECURSIVE Component(_)
\* The nodes joined to a node of S by edges taken in either direction.
Component(S) ==
    LET more == S \cup {e.endNodeId : e \in {x \in EdgeSet : x.startNodeId \in S}}
                  \cup {e.startNodeId : e \in {x \in EdgeSet : x.endNodeId \in S}}
    IN  IF more = S THEN S ELSE Component(more)

\* The node a path coordinate belongs to (no two nodes share a coordinate).
NodeAt(p) ==
    CHOOSE n \in Nodes : nodes[n].latitude = p.lat /\ nodes[n].longitude = p.lng

PathNodes(path) == [i \in 1 .. Len(path) |-> NodeAt(path[i])]

CoordsOf(ns) ==
    [i \in 1 .. Len(ns) |-> [lat |-> nodes[ns[i]].latitude,
                             lng |-> nodes[ns[i]].longitude]]

HasEdge(u, v) == \E e \in EdgeSet : e.startNodeId = u /\ e.endNodeId = v

\* The raw distance of the edge from u to v (these graphs hold at most one).
EdgeDistance(u, v) ==
    (CHOOSE e \in EdgeSet : e.startNodeId = u /\ e.endNodeId = v).distance

RECURSIVE SumDistances(_, _)
SumDistances(ns, i) ==
    IF i >= Len(ns) THEN 0
    ELSE EdgeDistance(ns[i], ns[i + 1]) + SumDistances(ns, i + 1)

AllPenaltiesAtLeastOne == \A e \in EdgeSet : e.penalty >= One

\* No edge is stored shorter than the straight line between its end nodes.
DistancesCoverStraightLine ==
    \A e \in EdgeSet : e.distance >= StraightLine(e.startNodeId, e.endNodeId)

----------------------------------------------------------------------------
(* Properties of findPath *)

\* C1 as stated: on every graph whose edges all have penalty >= 1, a
\* returned totalCost is the least cost of any directed edge path from the
\* snapped start node to the snapped end node.
OptimalCostGivenPenalties ==
    \A c \in Callers :
       Found(c) /\ AllPenaltiesAtLeastOne
          => result[c].totalCost = MinCost(startNode[c], endNode[c])

\* C1 amended: on every graph whose edges all have penalty >= 1 and a stored
\* distance no shorter than the straight line between their end nodes, a
\* returned totalCost is the least cost of any directed edge path from the
\* snapped start node to the snapped end node.
OptimalCost ==
    \A c \in Callers :
       Found(c) /\ AllPenaltiesAtLeastOne /\ DistancesCoverStraightLine
          => result[c].totalCost = MinCost(startNode[c], endNode[c])

\* A four-node route was returned although a shorter-hop route exists, on
\* a graph with a penalty above 1.
OptimalCostWitness ==
    \E c \in Callers :
       /\ Found(c) /\ AllPenaltiesAtLeastOne /\ DistancesCoverStraightLine
       /\ Len(result[c].path) = 4
       /\ HasEdge("A", "C")
       /\ \E e \in EdgeSet : e.penalty > One

\* C2: a returned totalDistance is the sum of the raw distances of the edges
\* joining consecutive nodes of the returned path, whatever the penalties.
TotalDistanceIsPathLength ==
    \A c \in Callers :
       Found(c) => result[c].totalDistance
                      = SumDistances(PathNodes(result[c].path), 1)

\* C3: the cost of every adjacency entry is distance * penalty, with the
\* multiplier 1 for a stored penalty of 0, and an edge of positive distance
\* never costs 0.
AdjacencyCost ==
    \A c \in Callers :
       Loaded(c) =>
          \A e \in EdgeSet :
             /\ e.startNodeId \in DOMAIN adjacency[c]
             /\ \E k \in DOMAIN adjacency[c][e.startNodeId] :
                   LET entry == adjacency[c][e.startNodeId][k]
                   IN  /\ entry.edgeId = e.id
                       /\ entry.nodeId = e.endNodeId
                       /\ entry.cost = IF e.penalty = 0
                                       THEN e.distance * PenaltyScale
                                       ELSE e.distance * e.penalty
                       /\ e.distance > 0 => entry.cost > 0

\* An adjacency list was built from an edge of penalty 0.
AdjacencyCostWitness ==
    \E c \in Callers :
       Loaded(c) /\ \E e \in EdgeSet : e.penalty = 0 /\ e.distance > 0

\* C4: a returned path is the coordinate sequence of nodes n0..nk with n0 the
\* snapped start node, nk the snapped end node and a stored edge from each
\* node to the next.
PathIsComplete ==
    \A c \in Callers :
       Found(c) =>
          LET path == result[c].path
              ns == PathNodes(path)
          IN  /\ Len(path) >= 1
              /\ \A i \in 1 .. Len(path) :
                    \E n \in Nodes : nodes[n].latitude = path[i].lat
                                     /\ nodes[n].longitude = path[i].lng
              /\ ns[1] = startNode[c]
              /\ ns[Len(ns)] = endNode[c]
              /\ \A i \in 1 .. Len(ns) - 1 : HasEdge(ns[i], ns[i + 1])

\* A path over three edges was returned.
PathIsCompleteWitness ==
    \E c \in Callers : Found(c) /\ Len(result[c].path) = 4

\* C5: when no chain of edges, taken in either direction, joins the snapped
\* start node to the snapped end node, the call returns not-found; and a
\* popped node that has no adjacency entry does not stop the call (it is
\* handled as a node with no outgoing edges).
DisjointIsNotFound ==
    \A c \in Callers :
       /\ (Done(c) /\ Snapped(c) /\ endNode[c] \notin Component({startNode[c]}))
             => result[c] = NullResult
       /\ (pc[c] = "search" /\ \E it \in MinItems(openSet[c]) :
                                  it.nodeId \notin DOMAIN adjacency[c])
             => ENABLED (ReachEnd(c) \/ Expand(c) \/ SkipVisited(c))

\* The search ended not-found after expanding a node that has no adjacency
\* entry.
DisjointIsNotFoundWitness ==
    \E c \in Callers :
       /\ Done(c) /\ Snapped(c) /\ endNode[c] \notin Component({startNode[c]})
       /\ result[c] = NullResult
       /\ \E n \in visited[c] : n \notin DOMAIN adjacency[c]

\* C7: every returned path has at least 2 points, also when both endpoints
\* snap to the same node.
PathHasTwoPoints ==
    \A c \in Callers : Found(c) => Len(result[c].path) >= 2

\* The radius at which a coordinate finds its node: the first of 0.001,
\* 0.005, 0.01 and 0.05 degrees whose box holds a node (0.05 if none does).
SnapRadius(lat, lng) ==
    LET Holds(r) == \E n \in Nodes : /\ Abs(nodes[n].latitude - lat) <= r
                                     /\ Abs(nodes[n].longitude - lng) <= r
    IN  IF Holds(1) THEN 1 ELSE IF Holds(5) THEN 5
        ELSE IF Holds(10) THEN 10 ELSE 50

Within(p, lat, lng, r) == Abs(p.lat - lat) <= r /\ Abs(p.lng - lng) <= r

\* C8: the first coordinate of a returned path lies within the start's snap
\* radius of the requested start in latitude and in longitude, and the last
\* within the end's snap radius of the requested end.
PathEndsNearRequest ==
    \A c \in Callers :
       Found(c) =>
          LET path == result[c].path
              q == query[c]
          IN  /\ Len(path) >= 1
              /\ Within(path[1], q.startLat, q.startLng,
                        SnapRadius(q.startLat, q.startLng))
              /\ Within(path[Len(path)], q.endLat, q.endLng,
                        SnapRadius(q.endLat, q.endLng))

\* A path was returned for a start found only at radius 0.05 and an end
\* found only at radius 0.01.
PathEndsNearRequestWitness ==
    \E c \in Callers :
       /\ Found(c)
       /\ SnapRadius(query[c].startLat, query[c].startLng) = 50
       /\ SnapRadius(query[c].endLat, query[c].endLng) = 10
       /\ result[c].path[1].lat # query[c].startLat

\* findPath(A, D) on the four-node scenario graph.
ScenarioCall(c) ==
    /\ edges = ScenarioEdges
    /\ query[c] = Query(nodes["A"].latitude, nodes["A"].longitude,
                        nodes["D"].latitude, nodes["D"].longitude)

\* The route A, B, C, D with cost 300 and distance 300.
IsRouteABCD(r) ==
    /\ r.kind = "PathResult"
    /\ r.path = CoordsOf(<< "A", "B", "C", "D" >>)
    /\ r.totalCost = 300 * PenaltyScale
    /\ r.totalDistance = 300

\* C9 as stated: on the four-node scenario graph, findPath from A to D
\* returns A, B, C, D with totalCost 300 and totalDistance 300.
ScenarioPrefersDetour ==
    \A c \in Callers : Done(c) /\ ScenarioCall(c) => IsRouteABCD(result[c])

\* C9 amended: on the four-node scenario graph with B less than 4900 m and
\* C less than 4800 m in a straight line from D, findPath from A to D
\* returns A, B, C, D with totalCost 300 and totalDistance 300.
ScenarioPrefersDetourWhenClose ==
    \A c \in Callers :
       /\ Done(c) /\ ScenarioCall(c)
       /\ StraightLine("B", "D") < 4900 /\ StraightLine("C", "D") < 4800
       => IsRouteABCD(result[c])

\* The detour was returned on the square of side 0.03 degree.
ScenarioPrefersDetourWitness ==
    \E c \in Callers :
       /\ Done(c) /\ ScenarioCall(c) /\ nodes = SquareLayout(30)
       /\ IsRouteABCD(result[c])

\* The call ended because an endpoint found no node within radius 0.05.
NodeNotFound(c) == Done(c) /\ ~Snapped(c)

\* The call ended with both endpoints snapped and no route.
NoPathFound(c) == Done(c) /\ Snapped(c) /\ result[c].kind # "PathResult"

\* C6: what findPath returns when an endpoint has no node nearby differs
\* from what it returns when the search runs out without reaching the end.
OutcomesDistinguishable ==
    \A c, d \in Callers :
       NodeNotFound(c) /\ NoPathFound(d) => result[c] # result[d]

----------------------------------------------------------------------------
(* The issue cache *)

Returned(r) == req[r].pc = "done"

\* C10: every summary a getIssuesInBounds call returns, on the cell-cache
\* path and on the direct query alike and whatever the cache held before,
\* has its latitude in minLat..maxLat and its longitude in minLng..maxLng.
SummariesWithinBounds ==
    \A r \in Requests :
       Returned(r) =>
          \A i \in 1 .. Len(req[r].response) :
             InBounds(req[r].response[i], req[r].bounds)

\* A call on the cache path has returned a summary and has left out an issue
\* of a covering cell whose cached summary lies outside the box.
SummariesWithinBoundsWitness ==
    \E r \in Requests :
       /\ Returned(r)
       /\ req[r].response # <<>>
       /\ \E i \in 1 .. Len(req[r].allIssueIds) :
             LET id == req[r].allIssueIds[i]
             IN  /\ id \in DOMAIN summaryCache
                 /\ PassesResolvedFilter(summaryCache[id], req[r])
                 /\ ~InBounds(summaryCache[id], req[r].bounds)
                 /\ \A j \in 1 .. Len(req[r].response) :
                       req[r].response[j].id # id

\* What a call returns over an empty cache: the summaries of the rows of the
\* covering cells' range queries that pass the final filter.
ColdResult(store, q) ==
    LET b == q.bounds
        cells == getGridCellsForBounds(b.minLat, b.maxLat, b.minLng, b.maxLng)
        rows == UNION {CellRows(store, cells[i], q.includeResolved) :
                          i \in 1 .. Len(cells)}
    IN  {s \in {IssueSummary(row) : row \in rows} : PassesFilter(s, q)}

ResponseSet(r) == {req[r].response[i] : i \in 1 .. Len(req[r].response)}

OnCachePath(r) ==
    LET b == req[r].bounds
    IN  Len(getGridCellsForBounds(b.minLat, b.maxLat, b.minLng, b.maxLng))
           <= MaxCells

\* The call made on the empty cache returns the cold result.
FirstCallIsCold ==
    (Returned("r1") /\ OnCachePath("r1")) =>
       ResponseSet("r1") = ColdResult(issues, req["r1"])

\* C11: over a fixed issue set and a box of at most 100 cells, a call
\* returns the same set of summaries on warm cells as on cold ones,
\* whichever earlier calls warmed them.
WarmEqualsCold ==
    \A r \in Requests :
       (Returned(r) /\ OnCachePath(r)) =>
          ResponseSet(r) = ColdResult(issues, req[r])

\* C12: once an issue's record has changed and invalidateIssueCache(issueId,
\* lat, lng) has returned, a call that starts afterwards and returns the
\* issue returns the summary of the current record, whatever calls were in
\* progress when the invalidation ran.
FreshAfterInvalidate ==
    (Returned("r2") /\ inval.pc = "done" /\ inval.hasCoords) =>
       \A s \in ResponseSet("r2") :
          s.id = inval.issueId => s = IssueSummary(issues[s.id])

\* The same, when no other call is in progress during the invalidation.
FreshAfterInvalidateAlone ==
    (req["r1"].pc = "call" /\ Returned("r2") /\ inval.hasCoords) =>
       \A s \in ResponseSet("r2") :
          s.id = inval.issueId => s = IssueSummary(issues[s.id])

\* The number of grid cells that cover the box of a call.
CellCount(r) ==
    LET b == req[r].bounds
    IN  Len(getGridCellsForBounds(b.minLat, b.maxLat, b.minLng, b.maxLng))

\* C13: a call whose box is covered by more than 100 cells reads and writes
\* no cache entry and answers from one direct range query; a call whose box
\* is covered by 100 cells or fewer takes the per-cell cache path.
CapBypassesCache ==
    [][\A r \in Requests :
          /\ (CellCount(r) > 100 /\ req'[r] # req[r]) =>
                /\ cellCache' = cellCache
                /\ summaryCache' = summaryCache
                /\ \/ req[r].pc = "call" /\ req'[r].pc = "fallback"
                   \/ /\ req[r].pc = "fallback"
                      /\ req'[r].pc = "done"
                      /\ \E rows \in
                            Orders(BoundsRows(issues, req[r].bounds,
                                              req[r].includeResolved)) :
                            req'[r].response = Taken(rows)
          /\ (CellCount(r) <= 100 /\ req[r].pc = "call" /\ req'[r] # req[r]) =>
                /\ req'[r].pc = "readCells"
                /\ Len(req'[r].cells) = CellCount(r)]_vars

\* A call over more than 100 cells has returned summaries and the cache,
\* empty before it, is still empty.
CapBypassesCacheWitness ==
    \E r \in Requests :
       /\ Returned(r)
       /\ CellCount(r) > 100
       /\ req[r].response # <<>>
       /\ cellCache = EmptyMap
       /\ summaryCache = EmptyMap

\* The direct query returns no more rows than its cap.
FallbackIsCapped ==
    \A r \in Requests :
       (Returned(r) /\ CellCount(r) > 100) => Len(req[r].response) <= Take

\* C14: the direct query returns at most `take` summaries, and when more
\* issues match the bounds and the resolved filter, the ones returned are
\* those created most recently.
FallbackReturnsMostRecent ==
    \A r \in Requests :
       (Returned(r) /\ CellCount(r) > 100) =>
          /\ Len(req[r].response) <= Take
          /\ \A s \in ResponseSet(r) :
                \A row \in BoundsRows(issues, req[r].bounds,
                                      req[r].includeResolved) :
                   row.createdAt > s.createdAt =>
                      \E t \in ResponseSet(r) : t.id = row.id

\* C15: when a cache read or write fails during a call while the issue
\* store is available, the call still returns summaries instead of failing
\* with an error.
SurvivesCacheFailure == \A r \in Requests : req[r].pc # "failed"

\* C16: a call with includeResolved false returns no summary whose status is
\* RESOLVED, on the cache path and on the direct query, also when the cell
\* lists and summaries were cached by a call with includeResolved true.
NoResolvedUnlessAsked ==
    \A r \in Requests :
       (Returned(r) /\ ~req[r].includeResolved) =>
          \A s \in ResponseSet(r) : s.status # "RESOLVED"

\* A call with includeResolved false has returned a summary and has left out
\* an issue of a cached cell list whose cached summary is RESOLVED and
\* inside the box.
NoResolvedUnlessAskedWitness ==
    \E r \in Requests :
       /\ Returned(r)
       /\ ~req[r].includeResolved
       /\ req[r].response # <<>>
       /\ \E i \in 1 .. Len(req[r].allIssueIds) :
             LET id == req[r].allIssueIds[i]
             IN  /\ id \in DOMAIN summaryCache
                 /\ summaryCache[id].status = "RESOLVED"
                 /\ InBounds(summaryCache[id], req[r].bounds)

----------------------------------------------------------------------------
(* The graph import *)

\* C17: an import run on a store that holds an imported graph removes or
\* alters no node or edge (an edge keeps its identifier and the penalty that
\* issue events set) and adds no second copy, so the store after the second
\* import of the same provider answer is the store after the first.
ReimportKeepsGraph ==
    (imp.pc = "imported" /\ imp.run = 2) =>
       /\ nodes = imp.before.nodes
       /\ edges = imp.before.edges

\* C18: when the fetch of the provider data fails, the stored nodes and
\* edges after the failed import are those stored before it started.
FailedImportKeepsGraph ==
    imp.pc = "failed" =>
       /\ nodes = imp.before.nodes
       /\ edges = imp.before.edges

\* The stored node of an OSM node.
StoredNode(osmId) == CHOOSE n \in DOMAIN nodes : nodes[n].osmId = osmId

\* The store holds an edge from u to v of the given distance, with baseCost
\* equal to it and penalty 1.0.
HoldsEdge(u, v, distance) ==
    \E i \in 1 .. Len(edges) :
       /\ edges[i].startNodeId = u
       /\ edges[i].endNodeId = v
       /\ edges[i].distance = distance
       /\ edges[i].baseCost = distance
       /\ edges[i].penalty = One

JustImported == imp.pc = "imported" /\ (imp.run = 2 \/ imp.events = 0)

\* C19: after a successful import, for every consecutive node pair (u, v)
\* of every fetched way whose two nodes have coordinates the store holds an
\* edge u -> v and an edge v -> u with the same distance, baseCost equal to
\* the distance and penalty 1.0; and every stored edge has a stored reverse
\* edge of equal distance.
ImportIsBidirectional ==
    JustImported =>
       /\ \A w \in 1 .. Len(imp.data.ways) :
             \A i \in 1 .. Len(imp.data.ways[w]) - 1 :
                LET u == imp.data.ways[w][i]
                    v == imp.data.ways[w][i + 1]
                IN  (u \in DOMAIN imp.data.osmNodes
                       /\ v \in DOMAIN imp.data.osmNodes) =>
                       LET d == calculateDistance(imp.data.osmNodes, u, v)
                       IN  /\ \E n \in DOMAIN nodes : nodes[n].osmId = u
                           /\ \E n \in DOMAIN nodes : nodes[n].osmId = v
                           /\ HoldsEdge(StoredNode(u), StoredNode(v), d)
                           /\ HoldsEdge(StoredNode(v), StoredNode(u), d)
       /\ \A i \in 1 .. Len(edges) :
             \E j \in 1 .. Len(edges) :
                /\ edges[j].startNodeId = edges[i].endNodeId
                /\ edges[j].endNodeId = edges[i].startNodeId
                /\ edges[j].distance = edges[i].distance

\* An import has ended with edges in the store, of a way one of whose
\* nodes came without coordinates.
ImportIsBidirectionalWitness ==
    /\ JustImported
    /\ edges # << >>
    /\ \E w \in 1 .. Len(imp.data.ways) :
          \E i \in 1 .. Len(imp.data.ways[w]) :
             imp.data.ways[w][i] \notin DOMAIN imp.data.osmNodes

----------------------------------------------------------------------------
(* Concurrent route requests *)

RECURSIVE SearchAlone(_, _, _)
\* The results the search loop can end with from the given maps, queue and
\* visited set when it runs over the stored graph with no other call.
SearchAlone(s, seen, endId) ==
    IF s.openSet = {} THEN {NoPathResult}
    ELSE UNION
           {LET rest == [s EXCEPT !.openSet = @ \ {current}]
            IN  IF current.nodeId = endId
                THEN {Reconstruct(endId, s.gScore, s.cameFrom, s.distanceFrom,
                                  nodes)}
                ELSE IF current.nodeId \in seen
                THEN SearchAlone(rest, seen, endId)
                ELSE SearchAlone(
                        RelaxAll(rest, current.nodeId,
                                 NeighborsOf(buildAdjacencyList(edges),
                                             current.nodeId),
                                 1, nodes, nodes[endId]),
                        seen \cup {current.nodeId}, endId) :
            current \in MinItems(s.openSet)}

\* The results of findPath for the query when it is the only call.
AloneResults(q) ==
    UNION
      {IF from = Null \/ to = Null THEN {NullResult}
       ELSE SearchAlone([gScore |-> MapSet(EmptyMap, from, 0),
                         cameFrom |-> EmptyMap,
                         distanceFrom |-> MapSet(EmptyMap, from, 0),
                         openSet |-> {[nodeId |-> from, fScore |-> 0]}],
                        {}, to) :
       from \in findNearestNode(q.startLat, q.startLng),
       to \in findNearestNode(q.endLat, q.endLng)}

\* C20: findPath changes no node and no edge of the graph store, and over
\* an unchanging graph the result of a call is, in every interleaving with
\* another findPath call, a result the call has when it runs alone.
FindPathIsIndependent ==
    /\ [](\A c \in Callers : Done(c) => result[c] \in AloneResults(query[c]))
    /\ [][nodes' = nodes /\ edges' = edges]_vars

\* Two calls with different queries have run side by side to their ends,
\* each after expanding nodes, and both found a path.
FindPathIsIndependentWitness ==
    /\ \A c \in Callers : Found(c) /\ visited[c] # {}
    /\ query["c1"] # query["c2"]

\* The cells that cover the box of a call, as a set.
CoveringCells(r) ==
    LET b == req[r].bounds
        cells == getGridCellsForBounds(b.minLat, b.maxLat, b.minLng, b.maxLng)
    IN  {cells[i] : i \in 1 .. Len(cells)}

\* The cache a single call leaves behind on the cache path: for every
\* covering cell the ids of the cell's rows, each once, and the summary of
\* each of these rows.
CacheAfterOneCall(r) ==
    LET rowsOf(k) == CellRows(issues, k, req[r].includeResolved)
        all == UNION {rowsOf(k) : k \in CoveringCells(r)}
    IN  /\ DOMAIN cellCache = CoveringCells(r)
        /\ \A k \in CoveringCells(r) :
              /\ Len(cellCache[k]) = Cardinality(rowsOf(k))
              /\ {cellCache[k][i] : i \in 1 .. Len(cellCache[k])} =
                    {row.id : row \in rowsOf(k)}
        /\ DOMAIN summaryCache = {row.id : row \in all}
        /\ \A row \in all : summaryCache[row.id] = IssueSummary(row)

\* C21: over a fixed issue set, two calls with the same arguments that run
\* at once over cold cells both return, in every interleaving, the summary
\* set of a single call, and leave the cache entries of a single call.
ConcurrentCallsAgree ==
    /\ \A r \in Requests :
          (Returned(r) /\ OnCachePath(r)) =>
             ResponseSet(r) = ColdResult(issues, req[r])
    /\ (\A r \in Requests : Returned(r) /\ OnCachePath(r)) =>
          CacheAfterOneCall("r1")

\* Both calls have run on the cache path to their ends and returned
\* summaries, and cell lists are left in the cache.
ConcurrentCallsAgreeWitness ==
    /\ \A r \in Requests :
          Returned(r) /\ OnCachePath(r) /\ req[r].response # << >>
    /\ cellCache # EmptyMap

----------------------------------------------------------------------------
(* Termination and the relaxation rule *)

RECURSIVE ReachesStart(_, _, _, _)
\* Following the predecessors from n arrives at the start node in at most k
\* steps.
ReachesStart(cf, n, start, k) ==
    IF n = start THEN TRUE
    ELSE IF k = 0 \/ n \notin DOMAIN cf THEN FALSE
    ELSE ReachesStart(cf, cf[n], start, k - 1)

\* The predecessor walk from any node with a predecessor ends at the start.
WalkEnds(c) ==
    pc[c] \in {"search", "done"} =>
       \A n \in DOMAIN cameFrom[c] :
          ReachesStart(cameFrom[c], n, startNode[c], Cardinality(Nodes))

\* C22: on every finite graph with distances and penalties >= 0, with
\* cycles, parallel edges and zero-distance self-loops, findPath ends: the
\* search loop stops and the predecessor walk reaches the start node.
FindPathTerminates ==
    /\ [](\A c \in Callers : WalkEnds(c))
    /\ \A c \in Callers : (pc[c] = "snapStart") ~> Done(c)

\* A search over a graph that holds the zero-distance self-loop and the
\* cycle has ended with a path after skipping an item of a visited node.
FindPathTerminatesWitness ==
    /\ Found("c1")
    /\ \E i, j \in 1 .. Len(edges) :
          /\ edges[i].startNodeId = edges[i].endNodeId
          /\ edges[i].distance = 0
          /\ edges[j].startNodeId = "D"
    /\ Cardinality(visited["c1"]) >= 2

\* The nodes within r of the coordinate in latitude and in longitude.
BoxAt(lat, lng, r) ==
    { m \in Nodes : /\ Abs(nodes[m].latitude - lat) <= r
                    /\ Abs(nodes[m].longitude - lng) <= r }

\* n is what a snap of (lat, lng) may return: a node of the box of the first
\* radius that holds a node, none of that box strictly closer; no node when
\* the 0.05 box is empty.
SnapsTo(n, lat, lng) ==
    LET box == BoxAt(lat, lng, SnapRadius(lat, lng))
    IN  IF box = {} THEN n = Null
        ELSE /\ n \in box
             /\ \A m \in box :
                   NodeDist(m, lat, lng) >= NodeDist(n, lat, lng)

\* C23: each endpoint snaps to a node of the box of the first non-empty
\* radius among 0.001, 0.005, 0.01, 0.05 with no node of that box strictly
\* closer; it gets no node only when the 0.05 box is empty, and the call
\* then returns not-found without running the search.
SnapsToNearest ==
    \A c \in Callers :
       LET q == query[c]
       IN  /\ pc[c] \notin {"idle", "snapStart"} =>
                 SnapsTo(startNode[c], q.startLat, q.startLng)
           /\ pc[c] \notin {"idle", "snapStart", "snapEnd"} =>
                 /\ SnapsTo(endNode[c], q.endLat, q.endLng)
                 /\ ~ Snapped(c) =>
                       /\ Done(c)
                       /\ result[c] = NullResult
                       /\ nodeMap[c] = EmptyMap
                       /\ visited[c] = {}
                       /\ openSet[c] = {}

\* A start was snapped at radius 0.005 to the nearest of several nodes of
\* that box, and the graph was loaded.
SnapsToNearestWitness ==
    \E c \in Callers :
       /\ Loaded(c)
       /\ SnapRadius(query[c].startLat, query[c].startLng) = 5
       /\ \E m \in BoxAt(query[c].startLat, query[c].startLng, 5) :
             NodeDist(m, query[c].startLat, query[c].startLng)
                > NodeDist(startNode[c], query[c].startLat, query[c].startLng)

\* The record of node n in a map, as an optional value.
Recorded(map, n) == IF n \in DOMAIN map THEN << map[n] >> ELSE << >>

\* Cost a is strictly below cost b, a missing cost b counting as infinite.
StrictlyLower(a, b) == Len(a) = 1 /\ (Len(b) = 0 \/ a[1] < b[1])

\* What a step of the search of call c may do to the records of node n:
\* nothing, or set all three from the node just expanded through one of its
\* edges to n, the new cost strictly below the old.
RelaxedOrKept(c, n) ==
    LET oldG == Recorded(gScore[c], n)
        newG == Recorded(gScore'[c], n)
        kept == /\ newG = oldG
                /\ Recorded(cameFrom'[c], n) = Recorded(cameFrom[c], n)
                /\ Recorded(distanceFrom'[c], n) = Recorded(distanceFrom[c], n)
        relaxed ==
            /\ StrictlyLower(newG, oldG)
            /\ \E current \in visited'[c] \ visited[c] :
                  /\ Recorded(cameFrom'[c], n) = << current >>
                  /\ \E i \in DOMAIN NeighborsOf(adjacency[c], current) :
                        LET neighbor == NeighborsOf(adjacency[c], current)[i]
                        IN  /\ neighbor.nodeId = n
                            /\ newG = << gScore[c][current] + neighbor.cost >>
                            /\ Recorded(distanceFrom'[c], n) =
                                  << distanceFrom[c][current] + neighbor.distance >>
    IN  kept \/ relaxed

\* The start node of a running search has cost 0 and no predecessor.
StartKept(c) ==
    pc[c] = "search" =>
       /\ Recorded(gScore[c], startNode[c]) = << 0 >>
       /\ startNode[c] \notin DOMAIN cameFrom[c]

\* C24: during a search the recorded cost, predecessor and raw distance of a
\* node change only together and only when the cost through the node being
\* expanded is strictly lower than the recorded cost (a missing cost is
\* infinite): costs never increase, a tie never replaces a predecessor, and
\* the start node keeps cost 0 and no predecessor.
RelaxationRule ==
    /\ [](\A c \in Callers : StartKept(c))
    /\ [][\A c \in Callers :
             pc[c] = "search" => \A n \in Nodes : RelaxedOrKept(c, n)]_vars

\* A visited node has an edge to a node whose recorded cost equals the cost
\* through it, and that node keeps another predecessor.
RelaxationRuleWitness ==
    \E c \in Callers :
       /\ pc[c] = "search"
       /\ \E u \in visited[c] :
             \E i \in DOMAIN NeighborsOf(adjacency[c], u) :
                LET neighbor == NeighborsOf(adjacency[c], u)[i]
                IN  /\ neighbor.nodeId \in DOMAIN cameFrom[c]
                    /\ neighbor.nodeId # u
                    /\ gScore[c][neighbor.nodeId] = gScore[c][u] + neighbor.cost
                    /\ cameFrom[c][neighbor.nodeId] # u

\* The ids of the stored issues whose coordinates lie in the closed box of
\* call r and which pass its resolved filter.
StoredInBox(r) ==
    LET b == req[r].bounds
    IN  {i \in DOMAIN issues :
            /\ issues[i].latitude # NullCoord
            /\ issues[i].longitude # NullCoord
            /\ issues[i].latitude >= b.minLat
            /\ issues[i].latitude <= b.maxLat
            /\ issues[i].longitude >= b.minLng
            /\ issues[i].longitude <= b.maxLng
            /\ (req[r].includeResolved \/ issues[i].status # "RESOLVED")}

ReturnedIds(r) == {s.id : s \in ResponseSet(r)}

\* C25: on an empty cache, over an unchanging store and a box of at most 100
\* cells, the ids a call returns are exactly those of the stored issues that
\* lie in the closed box and pass the resolved filter.
ReturnsExactlyTheBox ==
    \A r \in Requests :
       (Returned(r) /\ OnCachePath(r)) => ReturnedIds(r) = StoredInBox(r)

\* Nothing is added: every returned id is of a stored issue in the box that
\* passes the filter.
ReturnsOnlyTheBox ==
    \A r \in Requests :
       (Returned(r) /\ OnCachePath(r)) => ReturnedIds(r) \subseteq StoredInBox(r)

\* Away from the corners of the cells nothing is lost either.
ReturnsTheBoxOffCorners ==
    \A r \in Requests :
       (/\ Returned(r)
        /\ OnCachePath(r)
        /\ \A i \in DOMAIN issues : issues[i].latitude % GRID_CELL_SIZE # 0)
       => ReturnedIds(r) = StoredInBox(r)

\* The map without the entry of key k.
Without(map, k) == [x \in DOMAIN map \ {k} |-> map[x]]

\* Both coordinates were supplied to the invalidation.
BothSupplied == inval.hasLat /\ inval.hasLng

\* C26: invalidateIssueCache(issueId, lat, lng) removes the summary entry of
\* issueId and, only when both coordinates are supplied, the cell entry
\* whose key is derived from (lat, lng); every other cell entry, every other
\* summary entry and the issue store are unchanged, and with a coordinate
\* omitted no cell entry is removed.
InvalidateRemovesOnly ==
    /\ [](inval.pc = "done" =>
            /\ summaryCache = Without(WarmSummaries(issues), inval.issueId)
            /\ cellCache =
                  IF BothSupplied
                  THEN Without(WarmCells(issues, TRUE),
                               CellKey(inval.lat \div 10, inval.lng \div 10))
                  ELSE WarmCells(issues, TRUE))
    /\ [][issues' = issues]_vars

\* An invalidation with both coordinates has returned: the summary of the
\* issue and one cell list are gone, another summary and two cell lists are
\* still cached.
InvalidateRemovesOnlyWitness ==
    /\ inval.pc = "done"
    /\ BothSupplied
    /\ inval.issueId \notin DOMAIN summaryCache
    /\ Cardinality(DOMAIN summaryCache) = 1
    /\ Cardinality(DOMAIN cellCache) = 2

----------------------------------------------------------------------------
(* The imported graph *)

\* At most one stored node per external identifier.
OneNodePerExternalId ==
    \A m, n \in DOMAIN nodes : nodes[m].osmId = nodes[n].osmId => m = n

\* At most one stored edge per ordered (start node, end node) pair.
OneEdgePerPair ==
    \A i, j \in DOMAIN edges :
       (/\ edges[i].startNodeId = edges[j].startNodeId
        /\ edges[i].endNodeId = edges[j].endNodeId) => i = j

\* C27: after any sequence of imports the store holds at most one node per
\* external identifier and at most one edge per ordered (start node, end
\* node) pair, also when a consecutive node pair occurs in several fetched
\* segments or several times in one.
ImportKeepsKeysUnique ==
    imp.pc = "imported" => OneNodePerExternalId /\ OneEdgePerPair

\* The node half holds in every state of every import.
ImportKeepsNodesUnique == OneNodePerExternalId

\* Every stored edge starts and ends at a stored node.
EdgesReferToNodes ==
    \A i \in DOMAIN edges :
       /\ edges[i].startNodeId \in DOMAIN nodes
       /\ edges[i].endNodeId \in DOMAIN nodes

\* Every stored node is of an external identifier that has a coordinate in
\* the fetched data, and carries that coordinate.
NodesHaveCoordinates ==
    \A n \in DOMAIN nodes :
       /\ nodes[n].osmId \in DOMAIN imp.data.osmNodes
       /\ nodes[n].latitude = imp.data.osmNodes[nodes[n].osmId].latitude
       /\ nodes[n].longitude = imp.data.osmNodes[nodes[n].osmId].longitude

\* C28: in every state of an import, between any two of its steps, every
\* stored edge's start and end identifiers refer to stored nodes, and no
\* node, hence no edge, exists for an external identifier that has no
\* coordinate in the fetched data.
ImportKeepsEdgesAttached == EdgesReferToNodes /\ NodesHaveCoordinates

\* A second import has cleared the edges and not yet the nodes, and the
\* fetched ways name a node that has no coordinate.
ImportKeepsEdgesAttachedWitness ==
    /\ imp.pc = "deleteNodes"
    /\ imp.run = 2
    /\ nodes # EmptyMap
    /\ imp.before.edges # << >>
    /\ \E w \in DOMAIN imp.data.ways : \E i \in DOMAIN imp.data.ways[w] :
          imp.data.ways[w][i] \notin DOMAIN imp.data.osmNodes

----------------------------------------------------------------------------
(* Expiry of cached entries *)

\* Every cached cell list was written at most CACHE_TTL seconds ago and
\* every cached summary at most ISSUE_SUMMARY_TTL seconds ago, whatever was
\* read in between.
EntriesWithinTtl ==
    /\ \A k \in DOMAIN cellCache :
          ttl.cell[k] > ttl.now /\ ttl.cell[k] <= ttl.now + 300
    /\ \A id \in DOMAIN summaryCache :
          ttl.summary[id] > ttl.now /\ ttl.summary[id] <= ttl.now + 600

\* A call that started more than 600 seconds after the last change of the
\* store returned what a call on an empty cache returns.
LateCallIsCold ==
    (Returned("r2") /\ req["r1"].pc # "idle" /\ imp.pc = "idle"
        /\ inval.pc = "delSummary") =>
       ResponseSet("r2") = ColdResult(issues, req["r2"])

\* C29: a cell list is never served more than 300 seconds after it was
\* written and a summary never more than 600 seconds after it was last
\* written, reads not extending the time; so every call that starts more
\* than 600 seconds after the last change of the store returns the summary
\* set of a call on an empty cache.
StaleAtMostTtl == EntriesWithinTtl /\ LateCallIsCold

RECURSIVE WalkNodes(_, _)
\* The nodes of the predecessor walk from nodeId back to the start.
WalkNodes(nodeId, cf) ==
    IF nodeId = Null THEN {}
    ELSE {nodeId} \cup WalkNodes(MapGet(cf, nodeId, Null), cf)

\* The coordinate a path gives for a row.
PointOf(row) == [lat |-> row.latitude, lng |-> row.longitude]

\* The returned path starts at the snapped start node, ends at the snapped
\* end node and has a coordinate for every node of the walk.
WholePath(c) ==
    LET path == result[c].path
    IN  /\ Len(path) >= 1
        /\ path[1] = PointOf(snapRows[c].start)
        /\ path[Len(path)] = PointOf(snapRows[c].end)
        /\ WalkNodes(endNode[c], cameFrom[c]) \subseteq DOMAIN nodeMap[c]

\* C30: a findPath call that overlaps a graph import, whatever the order of
\* its snap queries, its node load and its edge load among the import's
\* steps, returns either not-found or a path that starts at the snapped
\* start node, ends at the snapped end node and has a coordinate for every
\* node on it.
OverlapReturnsWholePath ==
    \A c \in Callers :
       Done(c) => result[c].kind = "null" \/ WholePath(c)

=============================================================================
